---------------------------- MODULE Spec2Model ----------------------------
(***************************************************************************)
(* A model of rust-lox: the scanner (scanner.rs), the single-pass Pratt    *)
(* compiler (compiler.rs), the string interner (interner.rs), the chunk    *)
(* and value types (chunk.rs, value.rs) and the stack VM (vm.rs).          *)
(*                                                                         *)
(* Conventions.                                                            *)
(*  - A Rust &str / String is a sequence of text fragments.  Source text   *)
(*    is a sequence of one-byte fragments (<<"v","a","r">>), so that the   *)
(*    scanner works byte by byte; a diagnostic message is a one-fragment   *)
(*    sequence (<<"Expect expression.">>).                                 *)
(*  - Rust indices are 0-based, TLA+ sequences 1-based: byte i of src is   *)
(*    src[i + 1], code[ip] is code[ip + 1].                                *)
(*  - A method  fn f(&mut self, a)  of the scanner or the parser is an     *)
(*    operator f(s, a) or f(p, a) from the object's value before the call  *)
(*    to its value after it; a loop is a RECURSIVE operator.               *)
(*  - An f64 is modelled as an exact rational [n, d] in lowest terms       *)
(*    (d > 0), or d = 0 for the non-finite values (n = 1: inf, n = -1:     *)
(*    -inf, n = 0: NaN).  Rounding and the sign of zero are not modelled.  *)
(***************************************************************************)
EXTENDS Integers, Sequences, FiniteSets, TLC

(***************************************************************************)
(* scanner.rs                                                              *)
(***************************************************************************)

\* The byte peek() and peek_next() return at the end of input (b'\0').
NUL == "NUL"

Digits == {"0", "1", "2", "3", "4", "5", "6", "7", "8", "9"}

Letters ==
    {"a", "b", "c", "d", "e", "f", "g", "h", "i", "j", "k", "l", "m",
     "n", "o", "p", "q", "r", "s", "t", "u", "v", "w", "x", "y", "z",
     "A", "B", "C", "D", "E", "F", "G", "H", "I", "J", "K", "L", "M",
     "N", "O", "P", "Q", "R", "S", "T", "U", "V", "W", "X", "Y", "Z"}

is_alpha(c) == c \in Letters \/ c = "_"

is_digit(c) == c \in Digits

Token_new(token_type, line, lexeme) ==
    [token_type |-> token_type, line |-> line, lexeme |-> lexeme]

Scanner_new(source) ==
    [start |-> 0, current |-> 0, src |-> source, line |-> 1]

\* self.src.as_bytes()[i]
byte_at(src, i) == src[i + 1]

\* &self.src[from..to]
slice(src, from, to) == SubSeq(src, from + 1, to)

is_at_end(s) == s.current = Len(s.src)

\* The cursor move of Scanner::advance; the byte it returns is
\* byte_at(s.src, s.current) of the scanner before the call.
Scanner_advance(s) == [s EXCEPT !.current = @ + 1]

Scanner_peek(s) == IF is_at_end(s) THEN NUL ELSE byte_at(s.src, s.current)

\* For a source of fewer than two bytes `src.len() - 2` underflows: with
\* overflow checks the subtraction panics, without them it wraps, the test is
\* false and the index current + 1 is out of bounds, which panics too.
peek_next_panics(s) == Len(s.src) < 2

\* peek_next where it does not panic.
peek_next(s) ==
    IF s.current > Len(s.src) - 2 THEN NUL ELSE byte_at(s.src, s.current + 1)

\* check_next returns a flag and moves the cursor when it is TRUE.
check_next(s, expected) ==
    IF is_at_end(s) \/ byte_at(s.src, s.current) # expected
    THEN [ok |-> FALSE, s |-> s]
    ELSE [ok |-> TRUE, s |-> [s EXCEPT !.current = @ + 1]]

make_token(s, token_type) ==
    Token_new(token_type, s.line, slice(s.src, s.start, s.current))

error_token(s, msg) == Token_new("Error", s.line, <<msg>>)

RECURSIVE skip_comment(_)
\* while self.peek() != b'\n' && !self.is_at_end() { self.advance(); }
skip_comment(s) ==
    IF Scanner_peek(s) # "\n" /\ ~is_at_end(s)
    THEN skip_comment(Scanner_advance(s))
    ELSE s

RECURSIVE skip_whitespace(_)
skip_whitespace(s) ==
    LET c == Scanner_peek(s) IN
    IF c \in {" ", "\r", "\t"} THEN skip_whitespace(Scanner_advance(s))
    ELSE IF c = "\n"
    THEN skip_whitespace(Scanner_advance([s EXCEPT !.line = @ + 1]))
    ELSE IF c = "/"
    THEN IF peek_next(s) = "/"
         THEN skip_comment(s)   \* then `break`: the loop is not re-entered
         ELSE s
    ELSE s

check_keyword(s, start, length, rest, token_type) ==
    IF s.current - s.start = start + length
       /\ slice(s.src, s.start + start, s.start + start + length) = rest
    THEN token_type
    ELSE "Identifier"

\* The match of identifier_type, arm by arm in source order.  The arm for
\* the this/true pair is written b'f' in the source, with the guard of the
\* first b'f' arm, so it is never taken.
identifier_type(s) ==
    LET c == byte_at(s.src, s.start)
        long == s.current - s.start > 1
        c1 == byte_at(s.src, s.start + 1)
    IN
    IF c = "a" THEN check_keyword(s, 1, 2, <<"n", "d">>, "And")
    ELSE IF c = "c" THEN check_keyword(s, 1, 4, <<"l", "a", "s", "s">>, "Class")
    ELSE IF c = "e" THEN check_keyword(s, 1, 3, <<"l", "s", "e">>, "Else")
    ELSE IF c = "f" /\ long
    THEN IF c1 = "a" THEN check_keyword(s, 2, 3, <<"l", "s", "e">>, "False")
         ELSE IF c1 = "o" THEN check_keyword(s, 2, 1, <<"r">>, "For")
         ELSE IF c1 = "u" THEN check_keyword(s, 2, 1, <<"n">>, "Fun")
         ELSE "Identifier"
    ELSE IF c = "i" THEN check_keyword(s, 1, 1, <<"f">>, "If")
    ELSE IF c = "n" THEN check_keyword(s, 1, 2, <<"i", "l">>, "Nil")
    ELSE IF c = "o" THEN check_keyword(s, 1, 1, <<"r">>, "Or")
    ELSE IF c = "p" THEN check_keyword(s, 1, 4, <<"r", "i", "n", "t">>, "Print")
    ELSE IF c = "r"
    THEN check_keyword(s, 1, 5, <<"e", "t", "u", "r", "n">>, "Return")
    ELSE IF c = "s" THEN check_keyword(s, 1, 4, <<"u", "p", "e", "r">>, "Super")
    ELSE IF c = "f" /\ long
    THEN IF c1 = "h" THEN check_keyword(s, 2, 2, <<"i", "s">>, "This")
         ELSE IF c1 = "r" THEN check_keyword(s, 2, 2, <<"u", "e">>, "True")
         ELSE "Identifier"
    ELSE IF c = "v" THEN check_keyword(s, 1, 2, <<"a", "r">>, "Var")
    ELSE IF c = "w" THEN check_keyword(s, 1, 4, <<"h", "i", "l", "e">>, "While")
    ELSE "Identifier"

RECURSIVE identifier_loop(_)
\* while is_alpha(self.peek()) || is_digit(self.peek()) { self.advance(); }
identifier_loop(s) ==
    IF is_alpha(Scanner_peek(s)) \/ is_digit(Scanner_peek(s))
    THEN identifier_loop(Scanner_advance(s))
    ELSE s

\* identifier, number and string return the scanner after the call and the
\* token: [s |-> ..., token |-> ...].
identifier(s) ==
    LET s1 == identifier_loop(s) IN
    [s |-> s1, token |-> make_token(s1, identifier_type(s1))]

RECURSIVE digits_loop(_)
\* while is_digit(self.peek()) { self.advance(); }
digits_loop(s) ==
    IF is_digit(Scanner_peek(s)) THEN digits_loop(Scanner_advance(s)) ELSE s

number(s) ==
    LET s1 == digits_loop(s)
        s2 == IF Scanner_peek(s1) = "." /\ is_digit(peek_next(s1))
              THEN digits_loop(Scanner_advance(s1))
              ELSE s1
    IN [s |-> s2, token |-> make_token(s2, "Number")]

RECURSIVE string_loop(_)
string_loop(s) ==
    IF Scanner_peek(s) # "\"" /\ ~is_at_end(s)
    THEN string_loop(Scanner_advance(
             IF Scanner_peek(s) = "\n" THEN [s EXCEPT !.line = @ + 1] ELSE s))
    ELSE s

string(s) ==
    LET s1 == string_loop(s) IN
    IF is_at_end(s1)
    THEN [s |-> s1, token |-> error_token(s1, "Unterminated string.")]
    ELSE LET s2 == Scanner_advance(s1) IN
         [s |-> s2, token |-> make_token(s2, "String")]

\* One token for a one-byte lexeme, or the two-byte token when the next
\* byte is `=`.
one_or_two(s, two, one) ==
    LET r == check_next(s, "=") IN
    IF r.ok THEN [s |-> r.s, token |-> make_token(r.s, two)]
    ELSE [s |-> r.s, token |-> make_token(r.s, one)]

\* The match on the first byte c of the lexeme; s is the scanner after
\* that byte.
scan_byte(c, s) ==
    LET single(tt) == [s |-> s, token |-> make_token(s, tt)] IN
    IF is_alpha(c) THEN identifier(s)
    ELSE IF is_digit(c) THEN number(s)
    ELSE CASE c = "(" -> single("LeftParen")
           [] c = ")" -> single("RightParen")
           [] c = "{" -> single("LeftBrace")
           [] c = "}" -> single("RightBrace")
           [] c = ";" -> single("Semicolon")
           [] c = "," -> single("Comma")
           [] c = "." -> single("Dot")
           [] c = "-" -> single("Minus")
           [] c = "+" -> single("Plus")
           [] c = "/" -> single("Slash")
           [] c = "*" -> single("Star")
           [] c = "!" -> one_or_two(s, "BangEqual", "Bang")
           [] c = "=" -> one_or_two(s, "EqualEqual", "Equal")
           [] c = "<" -> one_or_two(s, "LessEqual", "Less")
           [] c = ">" -> one_or_two(s, "GreaterEqual", "Greater")
           [] c = "\"" -> string(s)
           [] OTHER -> [s |-> s, token |-> error_token(s, "Unexpected character.")]

\* scan_token after skip_whitespace: sw is the scanner skip_whitespace left.
scan_lexeme(sw) ==
    LET s1 == [sw EXCEPT !.start = sw.current] IN
    IF is_at_end(s1) THEN [s |-> s1, token |-> make_token(s1, "Eof")]
    ELSE scan_byte(byte_at(s1.src, s1.current), Scanner_advance(s1))

\* scan_token returns the scanner after the call and the token.
scan_token(s0) == scan_lexeme(skip_whitespace(s0))

(***************************************************************************)
(* interner.rs                                                             *)
(***************************************************************************)

\* Interner::default(): map is a function from the interned strings to
\* their handles, vec the sequence of interned strings.
Interner_default == [map |-> <<>>, vec |-> <<>>]

\* intern handing out a new handle at every call.
intern_fresh(i, name) ==
    [interner |-> [map |-> (name :> Len(i.vec)) @@ i.map,
                   vec |-> Append(i.vec, name)],
     idx |-> Len(i.vec)]

\* intern and intern_string return the interner after the call and the
\* handle: [interner |-> ..., idx |-> ...].
intern(i, name) ==
    IF name \in DOMAIN i.map
    THEN [interner |-> i, idx |-> i.map[name]]
    ELSE LET idx == Cardinality(DOMAIN i.map) IN
         [interner |-> [map |-> (name :> idx) @@ i.map,
                        vec |-> Append(i.vec, name)],
          idx |-> idx]

intern_string(i, name) ==
    IF name \in DOMAIN i.map
    THEN [interner |-> i, idx |-> i.map[name]]
    ELSE LET idx == Cardinality(DOMAIN i.map) IN
         [interner |-> [map |-> (name :> idx) @@ i.map,
                        vec |-> Append(i.vec, name)],
          idx |-> idx]

lookup(i, idx) == i.vec[idx + 1]

(***************************************************************************)
(* value.rs                                                                *)
(***************************************************************************)

Value_Bool(b) == [type |-> "Bool", b |-> b]

Value_Nil == [type |-> "Nil"]

Value_Number(x) == [type |-> "Number", n |-> x.n, d |-> x.d]

Value_StringObj(idx) == [type |-> "StringObj", idx |-> idx]

Value_Identifier(idx) == [type |-> "Identifier", idx |-> idx]

Value_Function(idx) == [type |-> "Function", idx |-> idx]

Abs(k) == IF k < 0 THEN -k ELSE k

Sign(k) == IF k > 0 THEN 1 ELSE IF k < 0 THEN -1 ELSE 0

RECURSIVE GCD(_, _)
GCD(a, b) == IF b = 0 THEN a ELSE GCD(b, a % b)

\* The f64 n/d for d # 0, in lowest terms with a positive denominator.
f64(n, d) ==
    LET g == GCD(Abs(n), Abs(d)) IN
    [n |-> (Sign(d) * n) \div g, d |-> Abs(d) \div g]

f64_NAN == [n |-> 0, d |-> 0]

f64_is_nan(x) == x.d = 0 /\ x.n = 0

f64_of(v) == [n |-> v.n, d |-> v.d]

\* x + y
f64_add(x, y) ==
    IF x.d # 0 /\ y.d # 0 THEN f64(x.n * y.d + y.n * x.d, x.d * y.d)
    ELSE IF f64_is_nan(x) \/ f64_is_nan(y) THEN f64_NAN
    ELSE IF x.d = 0 /\ y.d = 0 THEN (IF x.n = y.n THEN x ELSE f64_NAN)
    ELSE IF x.d = 0 THEN x ELSE y

\* -x
f64_neg(x) == [n |-> -x.n, d |-> x.d]

\* x - y
f64_sub(x, y) == f64_add(x, f64_neg(y))

\* x * y
f64_mul(x, y) ==
    IF x.d # 0 /\ y.d # 0 THEN f64(x.n * y.n, x.d * y.d)
    ELSE IF x.n = 0 \/ y.n = 0 THEN f64_NAN
    ELSE [n |-> Sign(x.n) * Sign(y.n), d |-> 0]

\* x / y
f64_div(x, y) ==
    IF f64_is_nan(x) \/ f64_is_nan(y) THEN f64_NAN
    ELSE IF x.d = 0 /\ y.d = 0 THEN f64_NAN
    ELSE IF x.d = 0 THEN [n |-> x.n * (IF y.n < 0 THEN -1 ELSE 1), d |-> 0]
    ELSE IF y.d = 0 THEN f64(0, 1)
    ELSE IF y.n = 0 THEN [n |-> Sign(x.n), d |-> 0]
    ELSE f64(x.n * y.d, x.d * y.n)

\* x < y
f64_lt(x, y) ==
    IF f64_is_nan(x) \/ f64_is_nan(y) THEN FALSE
    ELSE IF x.d # 0 /\ y.d # 0 THEN x.n * y.d < y.n * x.d
    ELSE IF x.d = 0 /\ y.d = 0 THEN x.n < y.n
    ELSE IF x.d = 0 THEN x.n < 0 ELSE y.n > 0

\* x > y
f64_gt(x, y) == f64_lt(y, x)

\* (a - b).abs() < ERR_MARGIN.  Two distinct rationals n1/d1, n2/d2 differ
\* by at least 1/(d1*d2), far more than f64::EPSILON for the values a
\* program of Sources computes, so the test is equality of finite values;
\* inf - inf and anything involving NaN is NaN, which is not < ERR_MARGIN.
f64_close(a, b) == a.d # 0 /\ b.d # 0 /\ a = b

values_equal(av, bv) ==
    IF av.type = "Bool" /\ bv.type = "Bool" THEN av.b = bv.b
    ELSE IF av.type = "Nil" /\ bv.type = "Nil" THEN TRUE
    ELSE IF av.type = "Number" /\ bv.type = "Number"
    THEN f64_close(f64_of(av), f64_of(bv))
    ELSE IF av.type = "StringObj" /\ bv.type = "StringObj" THEN av.idx = bv.idx
    ELSE IF av.type = "Function" /\ bv.type = "Function" THEN av.idx = bv.idx
    ELSE FALSE

DigitValue(c) ==
    CASE c = "0" -> 0 [] c = "1" -> 1 [] c = "2" -> 2 [] c = "3" -> 3
      [] c = "4" -> 4 [] c = "5" -> 5 [] c = "6" -> 6 [] c = "7" -> 7
      [] c = "8" -> 8 [] c = "9" -> 9

RECURSIVE parse_f64_from(_, _, _, _)
\* The digits of lexeme from position i on, accumulated into n/d; seen is
\* TRUE once the `.` has been passed.
parse_f64_from(lexeme, i, acc, seen) ==
    IF i > Len(lexeme) THEN f64(acc.n, acc.d)
    ELSE IF lexeme[i] = "." THEN parse_f64_from(lexeme, i + 1, acc, TRUE)
    ELSE parse_f64_from(lexeme, i + 1,
             [n |-> acc.n * 10 + DigitValue(lexeme[i]),
              d |-> IF seen THEN acc.d * 10 ELSE acc.d],
             seen)

\* lexeme.parse::<f64>() of a Number token's lexeme.
parse_f64(lexeme) == parse_f64_from(lexeme, 1, [n |-> 0, d |-> 1], FALSE)

(***************************************************************************)
(* chunk.rs, function.rs                                                   *)
(***************************************************************************)

\* An OpCode without operand, and one with its operand.
Op(name) == [op |-> name]

Op1(name, a) == [op |-> name, a |-> a]

Chunk_new == [code |-> <<>>, constants |-> <<>>, lines |-> <<>>]

write(chunk, byte, line) ==
    [chunk EXCEPT !.code = Append(@, byte), !.lines = Append(@, line)]

\* add_constant returning the index after the one it filled.
add_constant_next(chunk, v) ==
    [chunk |-> [chunk EXCEPT !.constants = Append(@, v)],
     idx |-> Len(chunk.constants) + 1]

\* add_constant returns the chunk after the call and the index.
add_constant(chunk, v) ==
    [chunk |-> [chunk EXCEPT !.constants = Append(@, v)],
     idx |-> Len(chunk.constants)]

\* name is "None" for Option::None.
Function_new == [arity |-> 0, chunk |-> Chunk_new, name |-> "None"]

(***************************************************************************)
(* compiler.rs                                                             *)
(***************************************************************************)

USIZE_COUNT == 256

\* enum Precedence, from lowest to highest.
PrecedenceOrder ==
    <<"None", "Assignment", "Or", "And", "Equality", "Comparison", "Term",
      "Factor", "Unary", "Call", "Primary">>

\* The discriminant of a precedence: #[derive(PartialOrd)] compares by it.
Rank(prec) == CHOOSE i \in 1..Len(PrecedenceOrder) : PrecedenceOrder[i] = prec

Precedence_le(a, b) == Rank(a) <= Rank(b)

\* Precedence::next staying at the same level.
Precedence_same(prec) == prec

Precedence_next(prec) ==
    IF prec = "Primary" THEN "None" ELSE PrecedenceOrder[Rank(prec) + 1]

ParseRule_new(prefix, infix, precedence) ==
    [prefix |-> prefix, infix |-> infix, precedence |-> precedence]

Local_new(name, depth) == [name |-> name, depth |-> depth]

Compiler_new ==
    [function |-> Function_new,
     f_type |-> "TypeScript",
     locals |-> <<Local_new(Token_new("Eof", 0, <<>>), 0)>>,
     scope_depth |-> 0]

\* The rule table Parser::new builds; a rule is named by its function, and
\* "None" is Option::None.
get_rule(token_type) ==
    CASE token_type = "LeftParen" -> ParseRule_new("rule_grouping", "None", "None")
      [] token_type = "Minus" -> ParseRule_new("rule_unary", "rule_binary", "Term")
      [] token_type = "Plus" -> ParseRule_new("None", "rule_binary", "Term")
      [] token_type \in {"Slash", "Star"} ->
            ParseRule_new("None", "rule_binary", "Factor")
      [] token_type = "Bang" -> ParseRule_new("rule_unary", "None", "None")
      [] token_type \in {"BangEqual", "EqualEqual"} ->
            ParseRule_new("None", "rule_binary", "Equality")
      [] token_type \in {"Greater", "GreaterEqual", "Less", "LessEqual"} ->
            ParseRule_new("None", "rule_binary", "Comparison")
      [] token_type = "Identifier" -> ParseRule_new("rule_variable", "None", "None")
      [] token_type = "String" -> ParseRule_new("rule_string", "None", "None")
      [] token_type = "Number" -> ParseRule_new("rule_number", "None", "None")
      [] token_type = "And" -> ParseRule_new("None", "rule_and", "And")
      [] token_type \in {"False", "Nil", "True"} ->
            ParseRule_new("rule_literal", "None", "None")
      [] token_type = "Or" -> ParseRule_new("None", "rule_or", "Or")
      [] token_type \in {"RightParen", "LeftBrace", "RightBrace", "Comma", "Dot",
                         "Semicolon", "Equal", "Class", "Else", "For", "Fun",
                         "If", "Print", "Return", "Super", "This", "Var",
                         "While", "Error", "Eof"} ->
            ParseRule_new("None", "None", "None")

\* The parser over src.  interner is the VM's interner, which the parser
\* borrows mutably.  stderr is the sequence of diagnostics written so far.
\* notes is a history of the compilation (the length of stderr at its start,
\* the tokens scanned with the scanner's cursor before and after the scan,
\* the iterations of block's loop, the statements compiled, scopes opened
\* and closed,
\* locals added and initialized, the jumps of `and`, `or` and `while`, the
\* jumps patched and the loops emitted, the tokens synchronize skipped, and
\* at its end the height of the stack run() starts on); no operator of the
\* compiler reads it.
Parser_new(src, interner) ==
    [compiler |-> Compiler_new,
     interner |-> interner,
     current |-> Token_new("Eof", 0, <<>>),
     previous |-> Token_new("Eof", 0, <<>>),
     scanner |-> Scanner_new(src),
     had_error |-> FALSE,
     panic_mode |-> FALSE,
     stderr |-> <<>>,
     notes |-> <<>>]

code_len(p) == Len(p.compiler.function.chunk.code)

\* The history record rec added to the parser's notes, with the length of
\* the code and of the local table, and the depth of the last local, at that
\* moment.
note(p, rec) ==
    [p EXCEPT !.notes =
         Append(@, rec @@ [code |-> code_len(p),
                           locals |-> Len(p.compiler.locals),
                           last_depth |->
                               IF p.compiler.locals = <<>> THEN 0
                               ELSE p.compiler.locals[Len(p.compiler.locals)].depth])]

\* error_at reporting the error without setting had_error.
error_at_unflagged(p, token, message) ==
    IF p.panic_mode THEN p
    ELSE [p EXCEPT !.panic_mode = TRUE,
                   !.stderr = Append(@, [line |-> token.line,
                                         at |-> token.lexeme,
                                         message |-> message])]

error_at(p, token, message) ==
    IF p.panic_mode THEN p
    ELSE [p EXCEPT !.panic_mode = TRUE,
                   !.stderr = Append(@, [line |-> token.line,
                                         at |-> IF token.token_type = "Eof"
                                                THEN <<" at end">>
                                                ELSE IF token.token_type = "Error"
                                                THEN <<>>
                                                ELSE token.lexeme,
                                         message |-> message]),
                   !.had_error = TRUE]

error(p, message) == error_at(p, p.previous, message)

error_at_current(p, message) == error_at(p, p.current, message)

RECURSIVE advance_loop(_)
\* One turn of the loop of advance, r being what scan_token returned.
scanned(p, r) ==
    IF r.token.token_type # "Error"
    THEN note([p EXCEPT !.scanner = r.s, !.current = r.token],
              [kind |-> "token", token |-> r.token,
               from |-> p.scanner.current, to |-> r.s.current])
    ELSE advance_loop(error_at_current(
             note([p EXCEPT !.scanner = r.s, !.current = r.token],
                  [kind |-> "token", token |-> r.token,
                   from |-> p.scanner.current, to |-> r.s.current]),
             r.token.lexeme))

\* loop { current = scan_token(); if not Error { break }; error_at_current }
advance_loop(p) == scanned(p, scan_token(p.scanner))

advance(p) == advance_loop([p EXCEPT !.previous = p.current])

consume(p, token_type, message) ==
    IF p.current.token_type = token_type THEN advance(p)
    ELSE error_at_current(p, message)

check(p, token_type) == p.current.token_type = token_type

\* equal returns the flag and the parser after the call: [ok, p].
equal(p, token_type) ==
    IF check(p, token_type) THEN [ok |-> TRUE, p |-> advance(p)]
    ELSE [ok |-> FALSE, p |-> p]

emit_byte(p, byte) ==
    [p EXCEPT !.compiler.function.chunk = write(@, byte, p.previous.line)]

emit_bytes(p, byte1, byte2) ==
    [p EXCEPT !.compiler.function.chunk =
                  write(write(@, byte1, p.previous.line), byte2, p.previous.line)]

emit_loop(p, loop_start) ==
    LET offset == code_len(p) - loop_start
        p1 == IF offset > USIZE_COUNT THEN error(p, <<"Loop body too large.">>)
              ELSE p
    IN note(emit_byte(p1, Op1("Loop", offset)),
            [kind |-> "emit_loop", loop_start |-> loop_start])

\* emit_jump returns the parser after the call and the index of the jump.
emit_jump(p, instruction) ==
    LET p1 == emit_byte(p, instruction) IN
    [p |-> p1, offset |-> code_len(p1) - 1]

emit_return(p) == emit_byte(p, Op("Return"))

\* patch_jump computing the distance from the instruction after the jump.
patch_jump_short(p, offset) ==
    LET jump == code_len(p) - 2 - offset IN
    note([p EXCEPT !.compiler.function.chunk.code[offset + 1].a = jump],
         [kind |-> "patch_jump", offset |-> offset])

\* The `_` arm (the instruction at offset is no jump) also prints the code
\* to stdout; no caller reaches it, offset always comes from emit_jump.
patch_jump(p, offset) ==
    LET jump == code_len(p) - 1 - offset
        p1 == IF jump > USIZE_COUNT
              THEN error(p, <<"Too much code to jump over.">>)
              ELSE p
        instr == p1.compiler.function.chunk.code[offset + 1]
    IN note(IF instr.op \in {"Jump", "JumpIfFalse"}
            THEN [p1 EXCEPT !.compiler.function.chunk.code[offset + 1].a = jump]
            ELSE error(p1, <<"Operand is not Jump!">>),
            [kind |-> "patch_jump", offset |-> offset])

\* make_constant returns the parser after the call and the u8 index.
make_constant(p, value) ==
    LET r == add_constant(p.compiler.function.chunk, value)
        p1 == [p EXCEPT !.compiler.function.chunk = r.chunk]
    IN IF r.idx < USIZE_COUNT THEN [p |-> p1, idx |-> r.idx]
       ELSE [p |-> error(p1, <<"Too many constants in one chunk.">>), idx |-> 0]

emit_constant(p, val) ==
    LET r == make_constant(p, val) IN
    emit_byte(r.p, Op1("Constant", r.idx))

\* end_compiler returns the parser after emit_return; the Function it
\* returns is the compiler.function of that parser.
end_compiler(p) == emit_return(p)

begin_scope(p) ==
    note([p EXCEPT !.compiler.scope_depth = @ + 1],
         [kind |-> "begin_scope", depth |-> p.compiler.scope_depth + 1])

RECURSIVE end_scope_loop(_)
end_scope_loop(p) ==
    LET locals == p.compiler.locals IN
    IF locals # <<>> /\ locals[Len(locals)].depth > p.compiler.scope_depth
    THEN end_scope_loop(
             [emit_byte(p, Op("Pop")) EXCEPT
                 !.compiler.locals = SubSeq(locals, 1, Len(locals) - 1)])
    ELSE p

end_scope(p) ==
    note(end_scope_loop([p EXCEPT !.compiler.scope_depth = @ - 1]),
         [kind |-> "end_scope", depth |-> p.compiler.scope_depth,
          locals_before |-> Len(p.compiler.locals),
          code_before |-> code_len(p)])

identifier_constant(p, name) ==
    LET r == intern(p.interner, name.lexeme) IN
    make_constant([p EXCEPT !.interner = r.interner], Value_Identifier(r.idx))

identifiers_equal(a, b) == a.lexeme = b.lexeme

RECURSIVE resolve_local_from(_, _, _)
\* The iteration of resolve_local from index i (0-based) down to 0.
resolve_local_from(p, name, i) ==
    IF i < 0 THEN [p |-> p, found |-> FALSE, idx |-> 0]
    ELSE LET local == p.compiler.locals[i + 1] IN
         IF identifiers_equal(name, local.name)
         THEN [p |-> IF local.depth = -1
                     THEN error(p, <<"Cannot read local variable in its own initializer.">>)
                     ELSE p,
               found |-> TRUE, idx |-> i]
         ELSE resolve_local_from(p, name, i - 1)

\* resolve_local returns the parser after the call and the Option<usize>:
\* found is FALSE for None.
resolve_local(p, name) ==
    resolve_local_from(p, name, Len(p.compiler.locals) - 1)

\* add_local taking the local for initialized at once.
add_local_initialized(p, name) ==
    note([p EXCEPT !.compiler.locals =
                       Append(@, Local_new(name, p.compiler.scope_depth))],
         [kind |-> "add_local", depth |-> p.compiler.scope_depth])

add_local(p, name) ==
    IF Len(p.compiler.locals) = USIZE_COUNT
    THEN error(p, <<"Too many local variables in function.">>)
    ELSE note([p EXCEPT !.compiler.locals = Append(@, Local_new(name, -1))],
              [kind |-> "add_local", depth |-> p.compiler.scope_depth])

RECURSIVE declare_check_from(_, _, _)
\* The redeclaration check of declare_variable from index i down to 0.
declare_check_from(p, name, i) ==
    IF i < 0 THEN p
    ELSE LET local == p.compiler.locals[i + 1] IN
         IF local.depth # -1 /\ local.depth < p.compiler.scope_depth THEN p
         ELSE IF identifiers_equal(name, local.name)
         THEN error(p, <<"Already a variable with this name in this scope.">>)
         ELSE declare_check_from(p, name, i - 1)

declare_variable(p) ==
    IF p.compiler.scope_depth = 0 THEN p
    ELSE LET name == p.previous IN
         add_local(declare_check_from(p, name, Len(p.compiler.locals) - 1), name)

\* parse_variable returns the parser after the call and the u8 index.
parse_variable(p, err_msg) ==
    LET p1 == declare_variable(consume(p, "Identifier", err_msg)) IN
    IF p1.compiler.scope_depth > 0 THEN [p |-> p1, idx |-> 0]
    ELSE identifier_constant(p1, p1.previous)

mark_initialized(p) ==
    note([p EXCEPT !.compiler.locals[Len(p.compiler.locals)].depth =
                       p.compiler.scope_depth],
         [kind |-> "mark_initialized"])

define_variable(p, global) ==
    IF p.compiler.scope_depth > 0 THEN mark_initialized(p)
    ELSE emit_byte(p, Op1("DefineGlobal", global))

RECURSIVE parse_precedence(_, _), infix_loop(_, _, _), call_rule(_, _, _)
RECURSIVE rule_binary(_, _), rule_grouping(_, _), rule_or(_, _), rule_and(_, _)
RECURSIVE rule_unary(_, _), rule_variable(_, _), named_variable(_, _, _)
RECURSIVE expression(_), block(_), var_declaration(_), expression_statement(_)
RECURSIVE for_statement(_), if_statement(_), print_statement(_)
RECURSIVE while_statement(_), declaration(_), statement(_)

rule_binary(p, can_assign) ==
    LET operator_type == p.previous.token_type
        p1 == parse_precedence(p, Precedence_next(get_rule(operator_type).precedence))
    IN CASE operator_type = "BangEqual" -> emit_bytes(p1, Op("Equal"), Op("Not"))
         [] operator_type = "EqualEqual" -> emit_byte(p1, Op("Equal"))
         [] operator_type = "Greater" -> emit_byte(p1, Op("Greater"))
         [] operator_type = "GreaterEqual" -> emit_bytes(p1, Op("Less"), Op("Not"))
         [] operator_type = "Less" -> emit_byte(p1, Op("Less"))
         [] operator_type = "LessEqual" -> emit_bytes(p1, Op("Greater"), Op("Not"))
         [] operator_type = "Plus" -> emit_byte(p1, Op("Add"))
         [] operator_type = "Minus" -> emit_byte(p1, Op("Subtract"))
         [] operator_type = "Star" -> emit_byte(p1, Op("Multiply"))
         [] operator_type = "Slash" -> emit_byte(p1, Op("Divide"))
         [] OTHER -> p1

rule_literal(p, can_assign) ==
    CASE p.previous.token_type = "False" -> emit_byte(p, Op("False"))
      [] p.previous.token_type = "Nil" -> emit_byte(p, Op("Nil"))
      [] p.previous.token_type = "True" -> emit_byte(p, Op("True"))
      [] OTHER -> p

rule_grouping(p, can_assign) ==
    consume(expression(p), "RightParen", <<"Expect ')' after expression.">>)

rule_number(p, can_assign) ==
    emit_constant(p, Value_Number(parse_f64(p.previous.lexeme)))

rule_or(p, can_assign) ==
    LET else_jump == emit_jump(p, Op1("JumpIfFalse", 255))
        end_jump == emit_jump(else_jump.p, Op1("Jump", 255))
        p1 == emit_byte(patch_jump(end_jump.p, else_jump.offset), Op("Pop"))
    IN note(patch_jump(parse_precedence(p1, "Or"), end_jump.offset),
            [kind |-> "or", else_jump |-> else_jump.offset,
             end_jump |-> end_jump.offset])

rule_string(p, can_assign) ==
    LET key == slice(p.previous.lexeme, 1, Len(p.previous.lexeme) - 1)
        r == intern(p.interner, key)
    IN emit_constant([p EXCEPT !.interner = r.interner], Value_StringObj(r.idx))

\* The first `if` of named_variable: arg is what resolve_local returned;
\* the result is the parser with get_op and set_op.
variable_ops(arg, name) ==
    IF arg.found
    THEN [p |-> arg.p,
          get_op |-> Op1("GetLocal", arg.idx % USIZE_COUNT),     \* arg as u8
          set_op |-> Op1("SetLocal", arg.idx % USIZE_COUNT)]
    ELSE LET c == identifier_constant(arg.p, name) IN
         [p |-> c.p, get_op |-> Op1("GetGlobal", c.idx),
          set_op |-> Op1("SetGlobal", c.idx)]

\* The second `if` of named_variable, r being the result of the first.
variable_emit(r, can_assign) ==
    IF can_assign /\ equal(r.p, "Equal").ok
    THEN emit_byte(expression(equal(r.p, "Equal").p), r.set_op)
    ELSE emit_byte(r.p, r.get_op)

named_variable(p, name, can_assign) ==
    variable_emit(variable_ops(resolve_local(p, name), name), can_assign)

rule_variable(p, can_assign) == named_variable(p, p.previous, can_assign)

rule_unary(p, can_assign) ==
    LET operator_type == p.previous.token_type
        p1 == parse_precedence(p, "Unary")
    IN CASE operator_type = "Bang" -> emit_byte(p1, Op("Not"))
         [] operator_type = "Minus" -> emit_byte(p1, Op("Negate"))
         [] OTHER -> p1

rule_and(p, can_assign) ==
    LET end_jump == emit_jump(p, Op1("JumpIfFalse", 255))
        p1 == emit_byte(end_jump.p, Op("Pop"))
    IN note(patch_jump(parse_precedence(p1, "And"), end_jump.offset),
            [kind |-> "and", end_jump |-> end_jump.offset])

\* r(self, can_assign) for the rule function named r.
call_rule(r, p, can_assign) ==
    CASE r = "rule_grouping" -> rule_grouping(p, can_assign)
      [] r = "rule_unary" -> rule_unary(p, can_assign)
      [] r = "rule_binary" -> rule_binary(p, can_assign)
      [] r = "rule_variable" -> rule_variable(p, can_assign)
      [] r = "rule_string" -> rule_string(p, can_assign)
      [] r = "rule_number" -> rule_number(p, can_assign)
      [] r = "rule_and" -> rule_and(p, can_assign)
      [] r = "rule_or" -> rule_or(p, can_assign)
      [] r = "rule_literal" -> rule_literal(p, can_assign)

\* The infix loop of parse_precedence; returned is TRUE when the loop left
\* the function through `return`.
infix_loop(p, precedence, can_assign) ==
    IF Precedence_le(precedence, get_rule(p.current.token_type).precedence)
    THEN LET p1 == advance(p)
             infix_rule == get_rule(p1.previous.token_type).infix
         IN IF infix_rule # "None"
            THEN infix_loop(call_rule(infix_rule, p1, can_assign),
                            precedence, can_assign)
            ELSE [p |-> error(p1, <<"Infix rule not found.">>), returned |-> TRUE]
    ELSE [p |-> p, returned |-> FALSE]

\* parse_precedence without the check for a pending `=`.
parse_assignment_unchecked(l, can_assign) == l.p

\* The end of parse_precedence, l being what the infix loop returned.
parse_assignment(l, can_assign) ==
    IF l.returned THEN l.p
    ELSE IF can_assign /\ equal(l.p, "Equal").ok
    THEN error(equal(l.p, "Equal").p, <<"Invalid assignment target.">>)
    ELSE l.p

\* parse_precedence after its advance(), p being the parser then.
parse_prefix(p, precedence, can_assign) ==
    IF get_rule(p.previous.token_type).prefix = "None"
    THEN error(p, <<"Expect expression.">>)
    ELSE parse_assignment(
             infix_loop(call_rule(get_rule(p.previous.token_type).prefix,
                                  p, can_assign),
                        precedence, can_assign),
             can_assign)

parse_precedence(p, precedence) ==
    parse_prefix(advance(p), precedence, Precedence_le(precedence, "Assignment"))

expression(p) == parse_precedence(p, "Assignment")

\* while !check(RightBrace) && !check(Eof) { declaration(); }
RECURSIVE block_loop(_)
block_loop(p) ==
    IF ~check(p, "RightBrace") /\ ~check(p, "Eof")
    THEN block_loop(declaration(note(p, [kind |-> "block_iteration"])))
    ELSE p

block(p) == consume(block_loop(p), "RightBrace", <<"Expect '}' after block.">>)

\* var_declaration after parse_variable, which returned global.
var_initializer(global) ==
    define_variable(
        consume(IF equal(global.p, "Equal").ok
                THEN expression(equal(global.p, "Equal").p)
                ELSE emit_byte(global.p, Op("Nil")),
                "Semicolon", <<"Expect ';' after variable declaration.">>),
        global.idx)

var_declaration(p) ==
    var_initializer(parse_variable(p, <<"Expect variable name.">>))

\* expression_statement without the Pop that discards the value.
expression_statement_unpopped(p) ==
    consume(expression(p), "Semicolon", <<"Expect ';' after expression.">>)

expression_statement(p) ==
    emit_byte(consume(expression(p), "Semicolon", <<"Expect ';' after expression.">>),
              Op("Pop"))

\* The initializer clause of for_statement.
for_initializer(p) ==
    IF equal(p, "Semicolon").ok THEN equal(p, "Semicolon").p
    ELSE IF equal(p, "Var").ok THEN var_declaration(equal(p, "Var").p)
    ELSE expression_statement(p)

\* The condition clause: the parser after it, loop_start, and exit_jump
\* (some is FALSE for None).
for_condition(p) ==
    IF ~equal(p, "Semicolon").ok
    THEN LET j == emit_jump(consume(expression(p), "Semicolon",
                                    <<"Expect ';' after loop condition.">>),
                            Op1("JumpIfFalse", 255))
         IN [p |-> emit_byte(j.p, Op("Pop")), loop_start |-> code_len(p),
             some |-> TRUE, exit_jump |-> j.offset]
    ELSE [p |-> equal(p, "Semicolon").p, loop_start |-> code_len(p),
          some |-> FALSE, exit_jump |-> 0]

\* The increment clause, c being the result of the condition clause.
for_increment(c) ==
    IF ~equal(c.p, "RightParen").ok
    THEN LET body_jump == emit_jump(c.p, Op1("Jump", 255)) IN
         [c EXCEPT
             !.p = patch_jump(
                       emit_loop(
                           consume(emit_byte(expression(body_jump.p), Op("Pop")),
                                   "RightParen", <<"Expect ')' after for clauses.">>),
                           c.loop_start),
                       body_jump.offset),
             !.loop_start = code_len(body_jump.p)]
    ELSE [c EXCEPT !.p = equal(c.p, "RightParen").p]

\* The body of the loop and the end of for_statement.
for_body(c) ==
    LET p5 == emit_loop(statement(c.p), c.loop_start) IN
    end_scope(IF c.some
              THEN emit_byte(patch_jump(p5, c.exit_jump), Op("Pop"))
              ELSE p5)

for_statement(p) ==
    for_body(for_increment(for_condition(for_initializer(
        consume(begin_scope(p), "LeftParen", <<"Expect '(' after 'for'.">>)))))

\* if_statement after the condition, then_jump being what emit_jump returned.
if_branches(then_jump) ==
    LET else_jump == emit_jump(statement(emit_byte(then_jump.p, Op("Pop"))),
                               Op1("Jump", 255))
        p4 == emit_byte(patch_jump(else_jump.p, then_jump.offset), Op("Pop"))
    IN patch_jump(IF equal(p4, "Else").ok
                  THEN statement(equal(p4, "Else").p)
                  ELSE p4,
                  else_jump.offset)

if_statement(p) ==
    if_branches(emit_jump(
        consume(expression(consume(p, "LeftParen", <<"Expect '(' after 'if'.">>)),
                "RightParen", <<"Expect ')' after condition.">>),
        Op1("JumpIfFalse", 255)))

print_statement(p) ==
    emit_byte(consume(expression(p), "Semicolon", <<"Expect ';' after value.">>),
              Op("Print"))

\* while_statement after the condition, exit_jump being what emit_jump
\* returned.
while_body(loop_start, exit_jump) ==
    note(emit_byte(patch_jump(emit_loop(statement(emit_byte(exit_jump.p, Op("Pop"))),
                                        loop_start),
                              exit_jump.offset),
                   Op("Pop")),
         [kind |-> "while", loop_start |-> loop_start,
          exit_jump |-> exit_jump.offset])

while_statement(p) ==
    while_body(code_len(p),
               emit_jump(consume(expression(consume(p, "LeftParen",
                                                    <<"Expect '(' after 'while'.">>)),
                                 "RightParen", <<"Expect ')' after condition.">>),
                         Op1("JumpIfFalse", 255)))

RECURSIVE synchronize_loop(_)
synchronize_loop(p) ==
    IF p.current.token_type # "Eof"
    THEN IF p.previous.token_type = "Semicolon" THEN p
         ELSE IF p.current.token_type = "Return" THEN p
         ELSE synchronize_loop(advance(note(p, [kind |-> "skip",
                                                previous |-> p.previous,
                                                current |-> p.current])))
    ELSE p

synchronize(p) == synchronize_loop([p EXCEPT !.panic_mode = FALSE])

\* The end of declaration: if self.panic_mode { self.synchronize(); }
recover(p) == IF p.panic_mode THEN synchronize(p) ELSE p

declaration(p) ==
    recover(IF equal(p, "Var").ok THEN var_declaration(equal(p, "Var").p)
            ELSE statement(p))

statement(p) ==
    LET ePrint == equal(p, "Print")
        eFor == equal(p, "For")
        eIf == equal(p, "If")
        eWhile == equal(p, "While")
        eBrace == equal(p, "LeftBrace")
    IN note(IF ePrint.ok THEN print_statement(ePrint.p)
            ELSE IF eFor.ok THEN for_statement(eFor.p)
            ELSE IF eIf.ok THEN if_statement(eIf.p)
            ELSE IF eWhile.ok THEN while_statement(eWhile.p)
            ELSE IF eBrace.ok THEN end_scope(block(begin_scope(eBrace.p)))
            ELSE expression_statement(p),
            [kind |-> "statement",
             form |-> IF ePrint.ok THEN "print"
                      ELSE IF eFor.ok THEN "for"
                      ELSE IF eIf.ok THEN "if"
                      ELSE IF eWhile.ok THEN "while"
                      ELSE IF eBrace.ok THEN "block"
                      ELSE "expression",
             code_before |-> code_len(p),
             locals_before |-> Len(p.compiler.locals)])

(***************************************************************************)
(* The sources handed to VM::interpret (main.rs: run_file, repl, tests).   *)
(***************************************************************************)

\* print 1.2;
Src_print_number ==
    <<"p", "r", "i", "n", "t", " ", "1", ".", "2", ";">>

\* print - (1.2 + 3.4 / 5.6);
Src_print_arith ==
    <<"p", "r", "i", "n", "t", " ", "-", " ", "(", "1", ".", "2", " ", "+",
      " ", "3", ".", "4", " ", "/", " ", "5", ".", "6", ")", ";">>

\* var x = 1; { var x = 2; print x; } print x;
Src_shadow ==
    <<"v", "a", "r", " ", "x", " ", "=", " ", "1", ";", " ", "{", " ", "v",
      "a", "r", " ", "x", " ", "=", " ", "2", ";", " ", "p", "r", "i", "n",
      "t", " ", "x", ";", " ", "}", " ", "p", "r", "i", "n", "t", " ", "x",
      ";">>

\* var a = 0; while (a < 3) { print a; a = a + 1; }
Src_while ==
    <<"v", "a", "r", " ", "a", " ", "=", " ", "0", ";", " ", "w", "h", "i",
      "l", "e", " ", "(", "a", " ", "<", " ", "3", ")", " ", "{", " ", "p",
      "r", "i", "n", "t", " ", "a", ";", " ", "a", " ", "=", " ", "a", " ",
      "+", " ", "1", ";", " ", "}">>

\* a = 1;
Src_set_undefined ==
    <<"a", " ", "=", " ", "1", ";">>

\* var a = 1; a = 2; print a;
Src_define_set ==
    <<"v", "a", "r", " ", "a", " ", "=", " ", "1", ";", " ", "a", " ", "=",
      " ", "2", ";", " ", "p", "r", "i", "n", "t", " ", "a", ";">>

\* print a;
Src_get_undefined ==
    <<"p", "r", "i", "n", "t", " ", "a", ";">>

\* var b = 1; print a;
Src_get_undefined_later ==
    <<"v", "a", "r", " ", "b", " ", "=", " ", "1", ";", " ", "p", "r", "i",
      "n", "t", " ", "a", ";">>

\* print (1 * 2 = 3 + 4);
Src_bad_assign ==
    <<"p", "r", "i", "n", "t", " ", "(", "1", " ", "*", " ", "2", " ", "=",
      " ", "3", " ", "+", " ", "4", ")", ";">>

\* var a = 0; print false and (a = 5); print 1 and (a = 2); print 1 or (a = 3); print nil or (a = 4);
Src_short_circuit ==
    <<"v", "a", "r", " ", "a", " ", "=", " ", "0", ";", " ", "p", "r", "i",
      "n", "t", " ", "f", "a", "l", "s", "e", " ", "a", "n", "d", " ", "(",
      "a", " ", "=", " ", "5", ")", ";", " ", "p", "r", "i", "n", "t", " ",
      "1", " ", "a", "n", "d", " ", "(", "a", " ", "=", " ", "2", ")", ";",
      " ", "p", "r", "i", "n", "t", " ", "1", " ", "o", "r", " ", "(", "a",
      " ", "=", " ", "3", ")", ";", " ", "p", "r", "i", "n", "t", " ", "n",
      "i", "l", " ", "o", "r", " ", "(", "a", " ", "=", " ", "4", ")", ";">>

\* { var a = 1; var b = 2; { var c = 3; } print a; }
Src_block ==
    <<"{", " ", "v", "a", "r", " ", "a", " ", "=", " ", "1", ";", " ", "v",
      "a", "r", " ", "b", " ", "=", " ", "2", ";", " ", "{", " ", "v", "a",
      "r", " ", "c", " ", "=", " ", "3", ";", " ", "}", " ", "p", "r", "i",
      "n", "t", " ", "a", ";", " ", "}">>

\* { var a = 1; print b; }
Src_block_error ==
    <<"{", " ", "v", "a", "r", " ", "a", " ", "=", " ", "1", ";", " ", "p",
      "r", "i", "n", "t", " ", "b", ";", " ", "}">>

\* { var a = 1; a = 2; }
Src_set_local ==
    <<"{", " ", "v", "a", "r", " ", "a", " ", "=", " ", "1", ";", " ", "a",
      " ", "=", " ", "2", ";", " ", "}">>

\* if (1 < 2) print 1; else print 2; if (nil) print 3;
Src_if ==
    <<"i", "f", " ", "(", "1", " ", "<", " ", "2", ")", " ", "p", "r", "i",
      "n", "t", " ", "1", ";", " ", "e", "l", "s", "e", " ", "p", "r", "i",
      "n", "t", " ", "2", ";", " ", "i", "f", " ", "(", "n", "i", "l", ")",
      " ", "p", "r", "i", "n", "t", " ", "3", ";">>

\* var s = 0; for (var i = 1; i <= 3; i = i + 1) s = s + i; print s;
Src_for ==
    <<"v", "a", "r", " ", "s", " ", "=", " ", "0", ";", " ", "f", "o", "r",
      " ", "(", "v", "a", "r", " ", "i", " ", "=", " ", "1", ";", " ", "i",
      " ", "<", "=", " ", "3", ";", " ", "i", " ", "=", " ", "i", " ", "+",
      " ", "1", ")", " ", "s", " ", "=", " ", "s", " ", "+", " ", "i", ";",
      " ", "p", "r", "i", "n", "t", " ", "s", ";">>

\* print "foo" + "bar";
Src_concat ==
    <<"p", "r", "i", "n", "t", " ", "\"", "f", "o", "o", "\"", " ", "+",
      " ", "\"", "b", "a", "r", "\"", ";">>

\* print !(5 - 4 > 3 * 2 == !nil);
Src_logic ==
    <<"p", "r", "i", "n", "t", " ", "!", "(", "5", " ", "-", " ", "4", " ",
      ">", " ", "3", " ", "*", " ", "2", " ", "=", "=", " ", "!", "n", "i",
      "l", ")", ";">>

\* var i = 9; for (i = 0; i < 2; i = i + 1) print i; if (nil) print 3; else i;
Src_for_global ==
    <<"v", "a", "r", " ", "i", " ", "=", " ", "9", ";", " ", "f", "o", "r",
      " ", "(", "i", " ", "=", " ", "0", ";", " ", "i", " ", "<", " ", "2",
      ";", " ", "i", " ", "=", " ", "i", " ", "+", " ", "1", ")", " ", "p",
      "r", "i", "n", "t", " ", "i", ";", " ", "i", "f", " ", "(", "n", "i",
      "l", ")", " ", "p", "r", "i", "n", "t", " ", "3", ";", " ", "e", "l",
      "s", "e", " ", "i", ";">>

\* print "a" + "bc" == "ab" + "c";
Src_concat_equal ==
    <<"p", "r", "i", "n", "t", " ", "\"", "a", "\"", " ", "+", " ", "\"",
      "b", "c", "\"", " ", "=", "=", " ", "\"", "a", "b", "\"", " ", "+",
      " ", "\"", "c", "\"", ";">>

\* print !0; print !""; print !nil; print !false; if (0) print 1; if ("") print 2; if (false) print 3; if (nil) print 4;
Src_truthiness ==
    <<"p", "r", "i", "n", "t", " ", "!", "0", ";", " ", "p", "r", "i", "n",
      "t", " ", "!", "\"", "\"", ";", " ", "p", "r", "i", "n", "t", " ",
      "!", "n", "i", "l", ";", " ", "p", "r", "i", "n", "t", " ", "!", "f",
      "a", "l", "s", "e", ";", " ", "i", "f", " ", "(", "0", ")", " ", "p",
      "r", "i", "n", "t", " ", "1", ";", " ", "i", "f", " ", "(", "\"",
      "\"", ")", " ", "p", "r", "i", "n", "t", " ", "2", ";", " ", "i",
      "f", " ", "(", "f", "a", "l", "s", "e", ")", " ", "p", "r", "i", "n",
      "t", " ", "3", ";", " ", "i", "f", " ", "(", "n", "i", "l", ")", " ",
      "p", "r", "i", "n", "t", " ", "4", ";">>

\* a;a;a; ... : USIZE_COUNT + 2 expression statements, each adding one
\* constant to the pool.
Src_many_constants ==
    [i \in 1..(2 * (USIZE_COUNT + 2)) |-> IF i % 2 = 1 THEN "a" ELSE ";"]

\* // c\nprint 1; // d
Src_comment ==
    <<"/", "/", " ", "c", "\n", "p", "r", "i", "n", "t", " ", "1", ";",
      " ", "/", "/", " ", "d">>

\* and class else false for fun if nil or print return super this true var while fortune f nill;
Src_keywords ==
    <<"a", "n", "d", " ", "c", "l", "a", "s", "s", " ", "e", "l", "s", "e",
      " ", "f", "a", "l", "s", "e", " ", "f", "o", "r", " ", "f", "u", "n",
      " ", "i", "f", " ", "n", "i", "l", " ", "o", "r", " ", "p", "r", "i",
      "n", "t", " ", "r", "e", "t", "u", "r", "n", " ", "s", "u", "p", "e",
      "r", " ", "t", "h", "i", "s", " ", "t", "r", "u", "e", " ", "v", "a",
      "r", " ", "w", "h", "i", "l", "e", " ", "f", "o", "r", "t", "u", "n",
      "e", " ", "f", " ", "n", "i", "l", "l", ";">>

\* print 1 + 2 * 3; var a = 6; var b = 2; var c = 1; print a - b - c;
Src_precedence ==
    <<"p", "r", "i", "n", "t", " ", "1", " ", "+", " ", "2", " ", "*", " ",
      "3", ";", " ", "v", "a", "r", " ", "a", " ", "=", " ", "6", ";", " ",
      "v", "a", "r", " ", "b", " ", "=", " ", "2", ";", " ", "v", "a", "r",
      " ", "c", " ", "=", " ", "1", ";", " ", "p", "r", "i", "n", "t", " ",
      "a", " ", "-", " ", "b", " ", "-", " ", "c", ";">>

\* while (nil == nil) nil;
Src_loop_first ==
    <<"w", "h", "i", "l", "e", " ", "(", "n", "i", "l", " ", "=", "=", " ",
      "n", "i", "l", ")", " ", "n", "i", "l", ";">>

Sources ==
    {Src_print_number,
     Src_print_arith,
     Src_shadow,
     Src_while,
     Src_set_undefined,
     Src_define_set,
     Src_get_undefined,
     Src_get_undefined_later,
     Src_bad_assign,
     Src_short_circuit,
     Src_block,
     Src_block_error,
     Src_set_local,
     Src_if,
     Src_for,
     Src_concat,
     Src_logic,
     Src_for_global,
     Src_concat_equal,
     Src_truthiness,
     Src_many_constants,
     Src_comment,
     Src_keywords,
     Src_precedence,
     Src_loop_first}


(***************************************************************************)
(* vm.rs                                                                   *)
(***************************************************************************)

\* How many interpret calls one VM receives.
MaxInterprets == 2

VARIABLES
    frames,          \* VM.frames: the CallFrames [f_idx, ip, slot_offset]
    interner,        \* VM.interner
    stack,           \* VM.stack
    globals,         \* VM.globals: a function from handles to Values
    functions,       \* VM.functions
    stdout,          \* the records written to stdout, in order
    stderr,          \* the records written to stderr, in order
    pc,              \* where interpret stands: "idle" (not in a call),
                     \* "compile", "run", or "aborted" (the process panicked)
    result,          \* what the last interpret call returned: "Ok",
                     \* "CompileError", "RuntimeError"; "None" while it runs,
                     \* "Panic" when it panicked
    parser,          \* the Parser of the running compile
    history,         \* history[f + 1]: the compilation notes of functions[f]
    calls,           \* the sources of the interpret calls so far, in order
    overflow_checks  \* the build: TRUE when integer overflow panics (debug),
                     \* FALSE when it wraps (release)

vars ==
    <<frames, interner, stack, globals, functions, stdout, stderr, pc, result,
      parser, history, calls, overflow_checks>>

CallFrame_new(f_idx, current_slot) ==
    [f_idx |-> f_idx, ip |-> 0, slot_offset |-> current_slot]

\* No Parser exists outside compile: a record without the Parser's fields.
NoParser == [dropped |-> TRUE]

\* VM::new().  The build is fixed for the life of the process.
Init ==
    /\ frames = <<>>
    /\ interner = Interner_default
    /\ stack = <<>>
    /\ globals = <<>>
    /\ functions = <<>>
    /\ stdout = <<>>
    /\ stderr = <<>>
    /\ pc = "idle"
    /\ result = "None"
    /\ parser = NoParser
    /\ history = <<>>
    /\ calls = <<>>
    /\ overflow_checks \in BOOLEAN

\* self.frames.last().unwrap()
last_frame == frames[Len(frames)]

\* self.functions[frame.f_idx].chunk
chunk == functions[last_frame.f_idx + 1].chunk

\* The instruction run() fetches: chunk.code[frame.ip].
op == chunk.code[last_frame.ip + 1]

\* constants.values[idx]
constant(idx) == chunk.constants[idx + 1]

\* peek(distance), for a stack that holds more than distance values.
peek(distance) == stack[Len(stack) - distance]

\* The stack without its top n values.
popped(n) == SubSeq(stack, 1, Len(stack) - n)

\* is_falsey taking the number 0 for falsey as well.
is_falsey_zero(value) ==
    IF value.type = "Bool" THEN ~value.b
    ELSE IF value.type = "Nil" THEN TRUE
    ELSE IF value.type = "Number" THEN value = Value_Number(f64(0, 1))
    ELSE FALSE

is_falsey(value) ==
    IF value.type = "Bool" THEN ~value.b
    ELSE IF value.type = "Nil" THEN TRUE
    ELSE FALSE

\* The loop of runtime_error over the frames i, i - 1, ..., 1 (innermost
\* first): the trace lines written, and whether `frame.ip - 1` underflowed.
\* With overflow checks that panics; without, the index wraps to usize::MAX
\* and `lines[instruction]` panics.  The loop stops at the first frame, from
\* the innermost, where that happens.
trace_from(i) ==
    LET underflows(j) ==
            \/ frames[j].ip - 1 < 0
            \/ frames[j].ip - 1 >= Len(functions[frames[j].f_idx + 1].chunk.lines)
        bad == {j \in 1..i : underflows(j)}
        stop == IF bad = {} THEN 0 ELSE CHOOSE j \in bad : \A k \in bad : k <= j
        line(frame, f) ==
            [line |-> f.chunk.lines[frame.ip],
             name |-> IF f.name # "None" THEN lookup(interner, f.name)
                      ELSE <<"script">>]
    IN [lines |-> [k \in 1..(i - stop) |->
                       line(frames[i - k + 1],
                            functions[frames[i - k + 1].f_idx + 1])],
        panic |-> bad # {}]

\* runtime_error: the record written to stderr, and whether the call
\* panicked instead of returning Err(RuntimeError).
runtime_error(msg) ==
    LET t == trace_from(Len(frames)) IN
    [rec |-> [kind |-> "runtime", message |-> msg, trace |-> t.lines],
     panic |-> t.panic]

\* The process panics: nothing runs after it.
Panic ==
    /\ pc' = "aborted"
    /\ result' = "Panic"
    /\ UNCHANGED <<frames, interner, stack, globals, functions, stdout, stderr,
                   parser, history, calls, overflow_checks>>

\* `return self.runtime_error(msg)` with the stack left as stack2: run() and
\* interpret return Err(RuntimeError), leaving the frames as they are.
Fail_on(stack2, msg) ==
    LET e == runtime_error(msg) IN
    /\ stack' = stack2
    /\ stderr' = Append(stderr, e.rec)
    /\ pc' = IF e.panic THEN "aborted" ELSE "idle"
    /\ result' = IF e.panic THEN "Panic" ELSE "RuntimeError"
    /\ UNCHANGED <<frames, interner, globals, functions, stdout,
                   parser, history, calls, overflow_checks>>

\* `return self.runtime_error(msg)` by an instruction that has not touched
\* the stack.
Fail(msg) == Fail_on(stack, msg)

\* The instruction leaves the stack as stack2 and the frame's ip at ip2
\* (the `ip += 1` that ends the iteration included).
Step(stack2, ip2) ==
    /\ stack' = stack2
    /\ frames' = [frames EXCEPT ![Len(frames)].ip = ip2]
    /\ UNCHANGED <<interner, globals, functions, stdout, stderr, pc, result,
                   parser, history, calls, overflow_checks>>

Running(name) == pc = "run" /\ op.op = name

\* interpret, up to the first token: Parser::new and the advance() that
\* opens compile.
interpret(source) ==
    /\ pc = "idle"
    /\ calls' = Append(calls, source)
    /\ IF /\ Scanner_peek(Scanner_new(source)) = "/"
          /\ peek_next_panics(Scanner_new(source))
       THEN \* the first scan_token panics in skip_whitespace, at the
            \* peek_next after a `/` (the one call of peek_next a source of
            \* fewer than two bytes reaches)
            /\ pc' = "aborted"
            /\ result' = "Panic"
            /\ UNCHANGED <<parser, interner, stderr>>
       ELSE /\ parser' = advance(note([Parser_new(source, interner)
                                          EXCEPT !.stderr = stderr],
                                      [kind |-> "compile",
                                       stderr |-> Len(stderr)]))
            /\ interner' = parser'.interner
            /\ stderr' = parser'.stderr
            /\ pc' = "compile"
            /\ result' = "None"
    /\ UNCHANGED <<frames, stack, globals, functions, stdout, history,
                   overflow_checks>>

\* A client calls interpret on its VM, MaxInterprets times at most.
Interpret(source) ==
    /\ Len(calls) < MaxInterprets
    /\ interpret(source)

\* One iteration of `while !self.equal(TokenType::Eof) { declaration(); }`.
CompileDeclaration ==
    /\ pc = "compile"
    /\ ~check(parser, "Eof")
    /\ parser' = declaration(parser)
    /\ interner' = parser'.interner
    /\ stderr' = parser'.stderr
    /\ UNCHANGED <<frames, stack, globals, functions, stdout, pc, result,
                   history, calls, overflow_checks>>

\* The exit of that loop (equal(Eof) advances), the rest of compile, and
\* interpret's match on its result.
CompileEnd ==
    /\ pc = "compile"
    /\ check(parser, "Eof")
    /\ LET p1 == equal(parser, "Eof").p
           had_error == p1.had_error
           f == end_compiler(p1)
       IN /\ interner' = f.interner
          /\ stderr' = f.stderr
          /\ parser' = NoParser
          /\ IF had_error
             THEN /\ pc' = "idle"
                  /\ result' = "CompileError"
                  /\ UNCHANGED <<frames, functions, history>>
             ELSE /\ functions' = Append(functions, f.compiler.function)
                  /\ history' = Append(history,
                                        note(f, [kind |-> "run",
                                                 height |-> Len(stack)]).notes)
                  /\ frames' = Append(frames, CallFrame_new(Len(functions), 0))
                  /\ pc' = "run"
                  /\ result' = "None"
    /\ UNCHANGED <<stack, globals, stdout, calls, overflow_checks>>

OpConstant ==
    /\ Running("Constant")
    /\ stdout' = Append(stdout, [op |-> "Constant", value |-> constant(op.a)])
    /\ stack' = Append(stack, constant(op.a))
    /\ frames' = [frames EXCEPT ![Len(frames)].ip = @ + 1]
    /\ UNCHANGED <<interner, globals, functions, stderr, pc, result, parser,
                   history, calls, overflow_checks>>

OpNil ==
    /\ Running("Nil")
    /\ Step(Append(stack, Value_Nil), last_frame.ip + 1)

OpFalse ==
    /\ Running("False")
    /\ Step(Append(stack, Value_Bool(FALSE)), last_frame.ip + 1)

\* Vec::pop on an empty stack returns None, which is dropped.
OpPop ==
    /\ Running("Pop")
    /\ Step(IF stack = <<>> THEN stack ELSE popped(1), last_frame.ip + 1)

OpDefineGlobal ==
    /\ Running("DefineGlobal")
    /\ LET c == constant(op.a) IN
       IF c.type = "Identifier"
       THEN IF stack = <<>> THEN Panic   \* peek(0): "Failed to peek"
            ELSE /\ globals' = (c.idx :> peek(0)) @@ globals
                 /\ stack' = popped(1)
                 /\ frames' = [frames EXCEPT ![Len(frames)].ip = @ + 1]
                 /\ UNCHANGED <<interner, functions, stdout, stderr, pc, result,
                                parser, history, calls, overflow_checks>>
       ELSE Fail(<<"constant is not Value::Identifier!">>)

OpGetGlobal ==
    /\ Running("GetGlobal")
    /\ LET c == constant(op.a) IN
       IF c.type = "Identifier"
       THEN IF c.idx \in DOMAIN globals
            THEN Step(Append(stack, globals[c.idx]), last_frame.ip + 1)
            ELSE Fail(<<"Undefined variable ", ToString(c.idx), ".">>)
       ELSE Fail(<<"constant is not Value::Identifier!">>)

\* SetGlobal popping the value it assigns.
OpSetGlobal_popping ==
    /\ Running("SetGlobal")
    /\ LET c == constant(op.a) IN
       IF c.type = "Identifier" /\ c.idx \in DOMAIN globals /\ stack # <<>>
       THEN /\ globals' = [globals EXCEPT ![c.idx] = peek(0)]
            /\ stack' = popped(1)
            /\ frames' = [frames EXCEPT ![Len(frames)].ip = @ + 1]
            /\ UNCHANGED <<interner, functions, stdout, stderr, pc, result,
                           parser, history, calls, overflow_checks>>
       ELSE Fail(<<"Cannot assign to undefined variable ", ToString(c.idx), ".">>)

OpSetGlobal ==
    /\ Running("SetGlobal")
    /\ LET c == constant(op.a) IN
       IF c.type = "Identifier"
       THEN IF c.idx \in DOMAIN globals
            THEN IF stack = <<>> THEN Panic   \* peek(0): "Failed to peek"
                 ELSE /\ globals' = [globals EXCEPT ![c.idx] = peek(0)]
                      /\ frames' = [frames EXCEPT ![Len(frames)].ip = @ + 1]
                      /\ UNCHANGED <<interner, stack, functions, stdout, stderr,
                                     pc, result, parser, history, calls,
                                     overflow_checks>>
            ELSE Fail(<<"Cannot assign to undefined variable ", ToString(c.idx), ".">>)
       ELSE Fail(<<"constant is not Value::Identifier!">>)

\* self.stack[idx] panics when idx is not an index of the stack.
OpGetLocal ==
    /\ Running("GetLocal")
    /\ LET idx == last_frame.slot_offset + op.a IN
       IF idx >= Len(stack) THEN Panic
       ELSE Step(Append(stack, stack[idx + 1]), last_frame.ip + 1)

OpSetLocal ==
    /\ Running("SetLocal")
    /\ LET idx == last_frame.slot_offset + op.a IN
       IF stack = <<>> \/ idx >= Len(stack) THEN Panic
       ELSE Step([stack EXCEPT ![idx + 1] = peek(0)], last_frame.ip + 1)

\* self.pop() panics on an empty stack ("Empty stack").
OpEqual ==
    /\ Running("Equal")
    /\ IF Len(stack) < 2 THEN Panic
       ELSE LET b == peek(0)
                a == peek(1)
            IN Step(Append(popped(2), Value_Bool(values_equal(a, b))),
                    last_frame.ip + 1)

\* binary_op that does not push the operands back when one is no Number.
binary_op_dropping(f, convert) ==
    IF Len(stack) < 2 THEN Panic
    ELSE LET b == peek(0)
             a == peek(1)
         IN IF a.type = "Number" /\ b.type = "Number"
            THEN LET x == f64_of(a)
                     y == f64_of(b)
                     r == CASE f = "x > y" -> f64_gt(x, y)
                            [] f = "x < y" -> f64_lt(x, y)
                            [] f = "x + y" -> f64_add(x, y)
                            [] f = "x - y" -> f64_sub(x, y)
                            [] f = "x * y" -> f64_mul(x, y)
                            [] f = "x / y" -> f64_div(x, y)
                 IN Step(Append(popped(2),
                                IF convert = "Value::Bool"
                                THEN Value_Bool(r) ELSE Value_Number(r)),
                         last_frame.ip + 1)
            ELSE Fail_on(popped(2), <<"Operands must be two numbers.">>)

\* binary_op(f, convert): both operands are popped; when one is no Number
\* they are pushed back, a and then b, before runtime_error.
binary_op(f, convert) ==
    IF Len(stack) < 2 THEN Panic
    ELSE LET b == peek(0)
             a == peek(1)
         IN IF a.type = "Number" /\ b.type = "Number"
            THEN LET x == f64_of(a)
                     y == f64_of(b)
                     r == CASE f = "x > y" -> f64_gt(x, y)
                            [] f = "x < y" -> f64_lt(x, y)
                            [] f = "x + y" -> f64_add(x, y)
                            [] f = "x - y" -> f64_sub(x, y)
                            [] f = "x * y" -> f64_mul(x, y)
                            [] f = "x / y" -> f64_div(x, y)
                 IN Step(Append(popped(2),
                                IF convert = "Value::Bool"
                                THEN Value_Bool(r) ELSE Value_Number(r)),
                         last_frame.ip + 1)
            ELSE Fail_on(Append(Append(popped(2), a), b),
                         <<"Operands must be two numbers.">>)

\* concatenate putting the right operand's bytes first.
concatenate_swapped ==
    IF Len(stack) < 2 THEN Panic
    ELSE LET b == peek(0)
             a == peek(1)
         IN IF a.type = "StringObj" /\ b.type = "StringObj"
            THEN LET res == intern_string(interner, lookup(interner, b.idx)
                                                    \o lookup(interner, a.idx))
                 IN /\ interner' = res.interner
                    /\ stack' = Append(popped(2), Value_StringObj(res.idx))
                    /\ frames' = [frames EXCEPT ![Len(frames)].ip = @ + 1]
                    /\ UNCHANGED <<globals, functions, stdout, stderr, pc, result,
                                   parser, history, calls, overflow_checks>>
            ELSE Fail(<<"Operands must be two strings.">>)

concatenate ==
    IF Len(stack) < 2 THEN Panic
    ELSE LET b == peek(0)
             a == peek(1)
         IN IF a.type = "StringObj" /\ b.type = "StringObj"
            THEN LET b_str == lookup(interner, b.idx)
                     a_str == lookup(interner, a.idx)
                     res == intern_string(interner, a_str \o b_str)
                 IN /\ interner' = res.interner
                    /\ stack' = Append(popped(2), Value_StringObj(res.idx))
                    /\ frames' = [frames EXCEPT ![Len(frames)].ip = @ + 1]
                    /\ UNCHANGED <<globals, functions, stdout, stderr, pc, result,
                                   parser, history, calls, overflow_checks>>
            ELSE Fail_on(Append(Append(popped(2), a), b),
                         <<"Operands must be two strings.">>)

OpGreater == Running("Greater") /\ binary_op("x > y", "Value::Bool")

OpLess == Running("Less") /\ binary_op("x < y", "Value::Bool")

OpAdd ==
    /\ Running("Add")
    /\ IF Len(stack) < 2 THEN Panic   \* peek(1): "Failed to peek"
       ELSE IF peek(0).type = "Number" /\ peek(1).type = "Number"
       THEN binary_op("x + y", "Value::Number")
       ELSE IF peek(0).type = "StringObj" /\ peek(1).type = "StringObj"
       THEN concatenate
       ELSE Fail(<<"Operand must be a number.">>)

OpSubtract == Running("Subtract") /\ binary_op("x - y", "Value::Number")

OpMultiply == Running("Multiply") /\ binary_op("x * y", "Value::Number")

OpDivide == Running("Divide") /\ binary_op("x / y", "Value::Number")

OpNot ==
    /\ Running("Not")
    /\ IF stack = <<>> THEN Panic
       ELSE Step(Append(popped(1), Value_Bool(is_falsey(peek(0)))),
                 last_frame.ip + 1)

OpNegate ==
    /\ Running("Negate")
    /\ IF stack = <<>> THEN Panic   \* peek(0): "Failed to peek"
       ELSE IF peek(0).type = "Number"
       THEN Step(Append(popped(1), Value_Number(f64_neg(f64_of(peek(0))))),
                 last_frame.ip + 1)
       ELSE Fail(<<"Operand must be a number.">>)

OpPrint ==
    /\ Running("Print")
    /\ IF stack = <<>> THEN Panic
       ELSE /\ stdout' = Append(stdout, [op |-> "Print", value |-> peek(0)])
            /\ stack' = popped(1)
            /\ frames' = [frames EXCEPT ![Len(frames)].ip = @ + 1]
            /\ UNCHANGED <<interner, globals, functions, stderr, pc, result,
                           parser, history, calls, overflow_checks>>

OpJump ==
    /\ Running("Jump")
    /\ Step(stack, last_frame.ip + op.a + 1)

\* JumpIfFalse popping the condition when it jumps.
OpJumpIfFalse_popping ==
    /\ Running("JumpIfFalse")
    /\ IF stack = <<>> THEN Panic
       ELSE IF is_falsey(peek(0)) THEN Step(popped(1), last_frame.ip + op.a + 1)
       ELSE Step(stack, last_frame.ip + 1)

OpJumpIfFalse ==
    /\ Running("JumpIfFalse")
    /\ IF stack = <<>> THEN Panic   \* peek(0): "Failed to peek"
       ELSE IF is_falsey(peek(0)) THEN Step(stack, last_frame.ip + op.a + 1)
       ELSE Step(stack, last_frame.ip + 1)

\* Loop not jumping back.
OpLoop_forward == Running("Loop") /\ Step(stack, last_frame.ip + 1)

\* ip -= offset + 1 on a usize, then ip += 1.  When offset + 1 > ip the
\* subtraction panics with overflow checks; without them it wraps, the
\* addition wraps back when the difference is -1, and any other wrapped ip
\* indexes no instruction, so the next fetch panics.
OpLoop ==
    /\ Running("Loop")
    /\ LET raw == last_frame.ip - (op.a + 1) IN
       IF raw >= 0 THEN Step(stack, raw + 1)
       ELSE IF overflow_checks THEN Panic
       ELSE IF raw = -1 THEN Step(stack, 0)
       ELSE Panic

OpReturn ==
    /\ Running("Return")
    /\ IF stack = <<>> THEN Panic   \* self.pop(): "Empty stack"
       ELSE LET ret_val == peek(0)
                rest == SubSeq(frames, 1, Len(frames) - 1)
            IN IF rest = <<>>
               THEN /\ frames' = rest
                    /\ stack' = IF popped(1) = <<>> THEN <<>>
                                ELSE SubSeq(stack, 1, Len(stack) - 2)
                    /\ pc' = "idle"
                    /\ result' = "Ok"
                    /\ UNCHANGED <<interner, globals, functions, stdout, stderr,
                                   parser, history, calls, overflow_checks>>
               ELSE LET caller == rest[Len(rest)]
                        kept == IF caller.slot_offset < Len(stack) - 1
                                THEN SubSeq(stack, 1, caller.slot_offset)
                                ELSE popped(1)
                    IN /\ frames' = [rest EXCEPT ![Len(rest)].ip = @ + 1]
                       /\ stack' = Append(kept, ret_val)
                       /\ UNCHANGED <<interner, globals, functions, stdout, stderr,
                                      pc, result, parser, history, calls,
                                      overflow_checks>>

Next ==
    \/ \E source \in Sources : Interpret(source)
    \/ CompileDeclaration
    \/ CompileEnd
    \/ OpConstant
    \/ OpNil
    \/ OpFalse
    \/ OpPop
    \/ OpDefineGlobal
    \/ OpGetGlobal
    \/ OpSetGlobal
    \/ OpGetLocal
    \/ OpSetLocal
    \/ OpEqual
    \/ OpGreater
    \/ OpLess
    \/ OpAdd
    \/ OpSubtract
    \/ OpMultiply
    \/ OpDivide
    \/ OpNot
    \/ OpNegate
    \/ OpPrint
    \/ OpJump
    \/ OpJumpIfFalse
    \/ OpLoop
    \/ OpReturn

Spec == Init /\ [][Next]_vars

(***************************************************************************)
(* Properties                                                              *)
(***************************************************************************)

\* The values the Print instructions have written so far, in order.
Printed ==
    LET ps == SelectSeq(stdout, LAMBDA r : r.op = "Print") IN
    [i \in 1..Len(ps) |-> ps[i].value]

\* Value::Number(n / d)
Num(n, d) == Value_Number(f64(n, d))

\* interpret is not running: it has not been called, has returned, or the
\* process has panicked.
Halted == pc \in {"idle", "aborted"}

\* run() is about to execute the Return of the only frame there is.
AtScriptReturn == pc = "run" /\ Len(frames) = 1 /\ op.op = "Return"

\* The compilation notes of the function the current frame runs.
frame_notes == history[last_frame.f_idx + 1]

\* C1: on a fresh VM, interpret of a source that compiles without error and
\* raises no runtime error (`print 1.2;`, `print - (1.2 + 3.4 / 5.6);`)
\* returns Ok: no CompileError, no RuntimeError, no abort.
C1_InterpretReturnsOk ==
    (calls \in {<<Src_print_number>>, <<Src_print_arith>>} /\ Halted)
        => result = "Ok"

\* `print 1.2;` on a fresh VM prints 1.2 and then panics at the Return, the
\* stack being empty.
C1_ReturnPanics ==
    /\ calls = <<Src_print_number>>
    /\ result = "Panic"
    /\ Printed = <<Num(12, 10)>>
    /\ op.op = "Return"
    /\ stack = <<>>

\* C2: when the Return of the script frame executes, a return value is on
\* the stack, and popping it and the script placeholder leaves the stack
\* empty.
C2_ScriptReturnStack == AtScriptReturn => Len(stack) \in {1, 2}

\* The Return of the script frame is reached with nothing on the stack.
C2_ReturnOnEmptyStack == AtScriptReturn /\ stack = <<>>

\* C3: in the script frame, the slot stack[slot_offset + s] that GetLocal(s)
\* or SetLocal(s) addresses exists, and it is the slot that holds the local
\* the compiler gave index s: when the initializer of that local has run,
\* its value, on top of the stack, is in slot slot_offset + s.
C3_LocalSlots ==
    (pc = "run" /\ Len(frames) = 1) =>
        /\ op.op \in {"GetLocal", "SetLocal"}
               => last_frame.slot_offset + op.a < Len(stack)
        /\ \A i \in DOMAIN frame_notes :
               (/\ frame_notes[i].kind = "mark_initialized"
                /\ frame_notes[i].code = last_frame.ip)
                   => Len(stack) - 1
                          = last_frame.slot_offset + frame_notes[i].locals - 1

\* GetLocal addresses a slot past the top of the stack.
C3_SlotMissing ==
    /\ pc = "run"
    /\ Len(frames) = 1
    /\ op.op = "GetLocal"
    /\ last_frame.slot_offset + op.a >= Len(stack)

\* C4: `var x = 1; { var x = 2; print x; } print x;` prints 2, the value of
\* the local of the block, and then 1, the value of the global.
C4_Shadowing ==
    (calls = <<Src_shadow>> /\ Halted) => Printed = <<Num(2, 1), Num(1, 1)>>

\* The shadowing program panics at the GetLocal of `print x` in the block,
\* before anything is printed.
C4_PanicsInBlock ==
    /\ calls = <<Src_shadow>>
    /\ result = "Panic"
    /\ op.op = "GetLocal"
    /\ Printed = <<>>

\* s is an initial part of t.
IsPrefix(s, t) == Len(s) <= Len(t) /\ s = SubSeq(t, 1, Len(s))

\* One iteration of the loop of run(): the instruction at ip is executed.
Execute ==
    \/ OpConstant \/ OpNil \/ OpFalse \/ OpPop \/ OpDefineGlobal
    \/ OpGetGlobal \/ OpSetGlobal \/ OpGetLocal \/ OpSetLocal \/ OpEqual
    \/ OpGreater \/ OpLess \/ OpAdd \/ OpSubtract \/ OpMultiply \/ OpDivide
    \/ OpNot \/ OpNegate \/ OpPrint \/ OpJump \/ OpJumpIfFalse \/ OpLoop
    \/ OpReturn

\* run() keeps looping: while an instruction can be executed, one is.
FairSpec == Spec /\ WF_vars(Execute)

\* The current frame stands after the code of a while statement.
PastWhile ==
    /\ frames # <<>>
    /\ \E i \in DOMAIN frame_notes :
           /\ frame_notes[i].kind = "while"
           /\ last_frame.ip >= frame_notes[i].code

\* C5: `var a = 0; while (a < 3) { print a; a = a + 1; }` on a fresh VM
\* executes Print exactly three times, printing 0, 1 and 2 in that order,
\* after which the loop exits and execution continues past it.
C5_WhileLoop ==
    /\ [](calls = <<Src_while>>
              => IsPrefix(Printed, <<Num(0, 1), Num(1, 1), Num(2, 1)>>))
    /\ (calls = <<Src_while>> /\ pc = "run")
           ~> (/\ calls = <<Src_while>>
               /\ Printed = <<Num(0, 1), Num(1, 1), Num(2, 1)>>
               /\ PastWhile)

\* The loop has printed 0, 1 and 2 and the frame stands at the instruction
\* after the loop.
C5_LoopExited ==
    /\ calls = <<Src_while>>
    /\ pc = "run"
    /\ Printed = <<Num(0, 1), Num(1, 1), Num(2, 1)>>
    /\ PastWhile

\* The constant a SetGlobal or GetGlobal names.
named == constant(op.a)

\* C6: SetGlobal for a name absent from globals makes interpret return
\* RuntimeError and creates no entry in globals; for a name DefineGlobal has
\* entered (no other instruction enters one), SetGlobal overwrites its value
\* with the top of the stack and does not pop it.
C6_SetGlobal ==
    [][/\ (pc = "run" /\ op.op = "SetGlobal" /\ named.type = "Identifier")
              => IF named.idx \in DOMAIN globals
                 THEN /\ stack # <<>>
                      /\ globals' = [globals EXCEPT ![named.idx] = peek(0)]
                      /\ stack' = stack
                      /\ pc' = "run"
                 ELSE /\ pc' = "idle"
                      /\ result' = "RuntimeError"
                      /\ globals' = globals
       /\ DOMAIN globals' # DOMAIN globals
              => pc = "run" /\ op.op = "DefineGlobal"]_vars

\* `a = 1;` has failed with a RuntimeError and left no global; then, in
\* `var a = 1; a = 2; print a;`, SetGlobal has overwritten the global with
\* the 2 that is still on top of the stack.
C6_SetAfterDefine ==
    /\ calls = <<Src_set_undefined, Src_define_set>>
    /\ \E i \in DOMAIN stderr :
           /\ stderr[i].kind = "runtime"
           /\ stderr[i].message[1] = "Cannot assign to undefined variable "
    /\ pc = "run"
    /\ op.op = "Pop"
    /\ chunk.code[last_frame.ip].op = "SetGlobal"
    /\ globals[constant(chunk.code[last_frame.ip].a).idx] = Num(2, 1)
    /\ peek(0) = Num(2, 1)

\* C7: in the script frame, GetGlobal for a name absent from globals makes
\* interpret return RuntimeError with one stack-trace line, wherever the
\* instruction is in the chunk, the first instruction included.
C7_GetGlobalUndefined ==
    [][(/\ pc = "run"
        /\ Len(frames) = 1
        /\ op.op = "GetGlobal"
        /\ named.type = "Identifier"
        /\ named.idx \notin DOMAIN globals)
           => /\ pc' = "idle"
              /\ result' = "RuntimeError"
              /\ Len(stderr') = Len(stderr) + 1
              /\ Len(stderr'[Len(stderr')].trace) = 1]_vars

\* `print a;` on a fresh VM: the GetGlobal at index 0 of the chunk panics
\* the process.
C7_FirstInstructionPanics ==
    /\ calls = <<Src_get_undefined>>
    /\ result = "Panic"
    /\ last_frame.ip = 0
    /\ op.op = "GetGlobal"

\* The compile error "Invalid assignment target." is among the diagnostics.
InvalidTargetReported ==
    \E i \in DOMAIN stderr :
        /\ "message" \in DOMAIN stderr[i]
        /\ stderr[i].message = <<"Invalid assignment target.">>

\* C8: when an `=` follows an expression that is no variable parsed at
\* assignment precedence, as in `print (1 * 2 = 3 + 4);`, compile reports
\* "Invalid assignment target." and interpret returns CompileError without
\* executing anything: run() is not entered and nothing is written, pushed,
\* defined or framed by the call.
C8_InvalidAssignmentTarget ==
    (calls # <<>> /\ calls[Len(calls)] = Src_bad_assign) =>
        /\ pc \in {"compile", "idle"}
        /\ pc = "idle" =>
               /\ result = "CompileError"
               /\ InvalidTargetReported
        /\ Len(calls) = 1 =>
               /\ stdout = <<>>
               /\ stack = <<>>
               /\ frames = <<>>
               /\ functions = <<>>
               /\ globals = <<>>

\* interpret of `print (1 * 2 = 3 + 4);` has returned CompileError after
\* reporting the invalid target.
C8_CompileErrorReturned ==
    /\ calls = <<Src_bad_assign>>
    /\ pc = "idle"
    /\ result = "CompileError"
    /\ InvalidTargetReported

\* C9: for `L and R` with L falsey, and for `L or R` with L truthy, no
\* instruction compiled from R is executed and the result is L's value,
\* the one value left on the stack for the expression: from the jump that
\* tests L's value, execution goes to the first instruction after R (for
\* `or` through the Jump that follows the test) with the stack, L's value
\* on top, unchanged.
C9_ShortCircuit ==
    [][(pc = "run" /\ stack # <<>>) =>
          \A i \in DOMAIN frame_notes :
              /\ (/\ frame_notes[i].kind = "and"
                  /\ frame_notes[i].end_jump = last_frame.ip
                  /\ is_falsey(peek(0)))
                     => /\ frames'[Len(frames)].ip = frame_notes[i].code
                        /\ stack' = stack
              /\ (/\ frame_notes[i].kind = "or"
                  /\ frame_notes[i].else_jump = last_frame.ip
                  /\ ~is_falsey(peek(0)))
                     => /\ frames'[Len(frames)].ip = frame_notes[i].end_jump
                        /\ stack' = stack
              /\ (/\ frame_notes[i].kind = "or"
                  /\ frame_notes[i].end_jump = last_frame.ip)
                     => /\ frames'[Len(frames)].ip = frame_notes[i].code
                        /\ stack' = stack]_vars

\* `print false and (a = 5); print 1 and (a = 2); print 1 or (a = 3);
\* print nil or (a = 4);` has printed false, 2, 1 and 4, and the constants
\* 5 and 3 of the right operands that were skipped were never loaded.
C9_RightOperandsSkipped ==
    /\ calls = <<Src_short_circuit>>
    /\ Printed = <<Value_Bool(FALSE), Num(2, 1), Num(1, 1), Num(4, 1)>>
    /\ \A i \in DOMAIN stdout : stdout[i].value \notin {Num(5, 1), Num(3, 1)}

\* The notes of a compilation say, for every scope closed, that closing it
\* removed from the local table as many entries as locals were declared in
\* the scope, and emitted that many instructions, all of them Pop.
ScopesClosed(p) ==
    \A i \in DOMAIN p.notes :
        p.notes[i].kind = "end_scope" =>
            LET e == p.notes[i]
                b == CHOOSE j \in 1..(i - 1) :
                         /\ p.notes[j].kind = "begin_scope"
                         /\ p.notes[j].depth = e.depth
                         /\ \A m \in (j + 1)..(i - 1) :
                                ~(/\ p.notes[m].kind = "begin_scope"
                                  /\ p.notes[m].depth = e.depth)
                k == Cardinality({m \in (b + 1)..(i - 1) :
                                      /\ p.notes[m].kind = "add_local"
                                      /\ p.notes[m].depth = e.depth})
            IN /\ e.locals_before - e.locals = k
               /\ e.code - e.code_before = k
               /\ \A c \in (e.code_before + 1)..e.code :
                      p.compiler.function.chunk.code[c].op = "Pop"

\* The frame stands at one of the instructions that the closing of a scope
\* emitted.
AtScopeEnd ==
    /\ pc = "run"
    /\ \E i \in DOMAIN frame_notes :
           /\ frame_notes[i].kind = "end_scope"
           /\ frame_notes[i].code_before <= last_frame.ip
           /\ last_frame.ip < frame_notes[i].code

\* C10: after a block in which k locals were declared, the local table has
\* k fewer entries than at the end of the block body and k Pop instructions
\* were emitted for it; at run time each of these instructions makes the
\* stack one value shorter, so that the stack after the block is k values
\* shorter than just before the block's closing.
C10_BlockEnd ==
    [][/\ pc' = "compile" => ScopesClosed(parser')
       /\ AtScopeEnd => Len(stack') = Len(stack) - 1]_vars

\* A Pop that closes a block executes on an empty stack: the frame of a
\* call that returned RuntimeError inside the block was resumed by the
\* Return of a later call.
C10_PopOnEmptyStack == AtScopeEnd /\ stack = <<>>

\* The frame on top is the one the running interpret call pushed: it runs
\* the function compiled last.
InOwnFrame == pc = "run" /\ last_frame.f_idx = Len(functions) - 1

\* The height the stack had when run() began in this frame.
run_height == frame_notes[Len(frame_notes)].height

ProbeStrings ==
    DOMAIN interner.map \cup {<<>>, <<"a">>, <<"a", "b", "c">>, <<"z">>}

\* C12: for any sequence of intern and intern_string calls on one Interner,
\* two calls return the same handle if and only if their byte strings are
\* equal, lookup(intern(s)) = s, and a handle returned earlier keeps looking
\* up to the same bytes after any later call.  Stated of the Interner of
\* every reachable state and of one and two further calls on it.
C12_Interner ==
    /\ Len(interner.vec) = Cardinality(DOMAIN interner.map)
    /\ \A s \in DOMAIN interner.map : lookup(interner, interner.map[s]) = s
    /\ \A s \in ProbeStrings :
           \A first \in {intern(interner, s), intern_string(interner, s)} :
               /\ lookup(first.interner, first.idx) = s
               /\ \A h \in 0..(Len(interner.vec) - 1) :
                      lookup(first.interner, h) = lookup(interner, h)
               /\ \A t \in ProbeStrings :
                      \A second \in {intern(first.interner, t),
                                     intern_string(first.interner, t)} :
                          /\ (second.idx = first.idx) <=> (s = t)
                          /\ lookup(second.interner, second.idx) = t
                          /\ lookup(second.interner, first.idx) = s

\* `print "a" + "bc" == "ab" + "c";` has interned a, bc, ab and c while
\* compiling and abc while running, and both concatenations are on the
\* stack with the one handle of abc.
C12_SameBytesSameHandle ==
    /\ calls = <<Src_concat_equal>>
    /\ pc = "run"
    /\ interner.vec = <<<<"a">>, <<"b", "c">>, <<"a", "b">>, <<"c">>,
                        <<"a", "b", "c">>>>
    /\ Len(stack) = 2
    /\ stack[1] = Value_StringObj(4)
    /\ stack[2] = Value_StringObj(4)

\* Values of every variant, and the values on the stack.
ProbeValues ==
    {Value_Nil, Value_Bool(TRUE), Value_Bool(FALSE), Num(0, 1), Num(1, 1),
     Value_StringObj(0), Value_StringObj(1), Value_Identifier(0),
     Value_Function(0)}
    \cup {stack[i] : i \in DOMAIN stack}

\* nil and false
Falsey == {Value_Nil, Value_Bool(FALSE)}

\* C13: is_falsey returns true exactly for Nil and Bool(false) and false for
\* every other value (Number(0) and the empty StringObj included); Not
\* replaces the top of the stack by Bool of that predicate, and JumpIfFalse
\* jumps exactly when the predicate holds of the top of the stack, which it
\* leaves in place.
C13_Falsey ==
    [][/\ \A v \in ProbeValues : is_falsey(v) <=> v \in Falsey
       /\ (Running("Not") /\ stack # <<>>)
              => stack' = Append(popped(1), Value_Bool(peek(0) \in Falsey))
       /\ (Running("JumpIfFalse") /\ stack # <<>>)
              => /\ stack' = stack
                 /\ frames'[Len(frames)].ip =
                        IF peek(0) \in Falsey
                        THEN last_frame.ip + op.a + 1
                        ELSE last_frame.ip + 1]_vars

\* `print !0; print !""; print !nil; print !false; if (0) print 1;
\* if ("") print 2; if (false) print 3; if (nil) print 4;` has printed
\* false, false, true, true, 1 and 2 and stands at its Return: 0 and the
\* empty string (the first string interned) were taken as truthy by Not and
\* by JumpIfFalse, false and nil as falsey.
C13_ZeroAndEmptyTruthy ==
    /\ calls = <<Src_truthiness>>
    /\ AtScriptReturn
    /\ lookup(interner, 0) = <<>>
    /\ Printed = <<Value_Bool(FALSE), Value_Bool(FALSE), Value_Bool(TRUE),
                   Value_Bool(TRUE), Num(1, 1), Num(2, 1)>>

\* The chunk has a line for every instruction, and every instruction that
\* names a constant names one the pool holds.
ChunkInRange(c) ==
    /\ Len(c.code) = Len(c.lines)
    /\ \A k \in DOMAIN c.code :
           c.code[k].op \in {"Constant", "DefineGlobal", "GetGlobal", "SetGlobal"}
               => c.code[k].a < Len(c.constants)

\* C14: after every emit during compilation |code| = |lines| and every
\* Constant(i), DefineGlobal(i), GetGlobal(i) and SetGlobal(i) in code has
\* i < |constants|, also after the constant pool has overflowed.  Stated of
\* the chunk under compilation after every declaration and of every chunk
\* handed to the VM.
C14_ChunkInRange ==
    /\ pc = "compile" => ChunkInRange(parser.compiler.function.chunk)
    /\ \A f \in DOMAIN functions : ChunkInRange(functions[f].chunk)

\* The pool of `a;a;a;...` has overflowed: it holds more than USIZE_COUNT
\* constants, "Too many constants in one chunk." was reported, and the
\* GetGlobal emitted last carries the index 0 that make_constant returns
\* then.
C14_PoolOverflowed ==
    /\ pc = "compile"
    /\ calls = <<Src_many_constants>>
    /\ Len(parser.compiler.function.chunk.constants) > USIZE_COUNT
    /\ \E e \in DOMAIN parser.stderr :
           parser.stderr[e].message = <<"Too many constants in one chunk.">>
    /\ LET code == parser.compiler.function.chunk.code IN
       /\ Len(code) = 2 * Len(parser.compiler.function.chunk.constants)
       /\ code[Len(code) - 1] = Op1("GetGlobal", 0)

\* The tokens scan_token has returned to the running compile, in order.
Tokens ==
    LET ts == SelectSeq(parser.notes, LAMBDA n : n.kind = "token") IN
    [i \in 1..Len(ts) |-> ts[i].token]

\* C15: when a line comment is followed by a newline and more source,
\* scan_token skips the comment and the newline and returns the first token
\* after them, never an Error token for the newline, with the line counter
\* incremented by one for that newline.  For `// c\nprint 1; // d`: the
\* first token returned is `print`, on line 2.
C15_CommentThenNewline ==
    (pc = "compile" /\ calls = <<Src_comment>>)
        => Tokens[1] = Token_new("Print", 2, <<"p", "r", "i", "n", "t">>)

\* scan_token has returned an Error token for the newline that ends the
\* comment, and then `print` with the line counter still at 1.
C15_ErrorTokenForNewline ==
    /\ pc = "compile"
    /\ calls = <<Src_comment>>
    /\ Tokens[1] = Token_new("Error", 1, <<"Unexpected character.">>)
    /\ Tokens[2] = Token_new("Print", 1, <<"p", "r", "i", "n", "t">>)
    /\ parser.had_error

\* The sixteen keyword lexemes and the token type of each.
KeywordType ==
    (<<"a", "n", "d">> :> "And")
    @@ (<<"c", "l", "a", "s", "s">> :> "Class")
    @@ (<<"e", "l", "s", "e">> :> "Else")
    @@ (<<"f", "a", "l", "s", "e">> :> "False")
    @@ (<<"f", "o", "r">> :> "For")
    @@ (<<"f", "u", "n">> :> "Fun")
    @@ (<<"i", "f">> :> "If")
    @@ (<<"n", "i", "l">> :> "Nil")
    @@ (<<"o", "r">> :> "Or")
    @@ (<<"p", "r", "i", "n", "t">> :> "Print")
    @@ (<<"r", "e", "t", "u", "r", "n">> :> "Return")
    @@ (<<"s", "u", "p", "e", "r">> :> "Super")
    @@ (<<"t", "h", "i", "s">> :> "This")
    @@ (<<"t", "r", "u", "e">> :> "True")
    @@ (<<"v", "a", "r">> :> "Var")
    @@ (<<"w", "h", "i", "l", "e">> :> "While")

\* C16: each of the sixteen keyword lexemes scans to its own keyword token
\* type, and every other identifier lexeme scans to Identifier.
C16_Keywords ==
    pc = "compile" =>
        \A i \in DOMAIN Tokens :
            LET t == Tokens[i] IN
            /\ t.lexeme \in DOMAIN KeywordType
                   => t.token_type = KeywordType[t.lexeme]
            /\ (/\ t.lexeme \notin DOMAIN KeywordType
                /\ t.token_type # "Error"
                /\ t.lexeme # <<>>
                /\ is_alpha(t.lexeme[1]))
                   => t.token_type = "Identifier"

\* All of `and class else false for fun if nil or print return super this
\* true var while fortune f nill;` has been scanned: `this` and `true` came
\* back as Identifier, the other fourteen keywords with their own types and
\* `fortune`, `f` and `nill` as Identifier.
C16_ThisAndTrueAreIdentifiers ==
    /\ pc = "compile"
    /\ calls = <<Src_keywords>>
    /\ Len(Tokens) = 21
    /\ Tokens[21].token_type = "Eof"
    /\ \A i \in 1..19 :
           Tokens[i].token_type =
               IF Tokens[i].lexeme \in DOMAIN KeywordType
                     /\ Tokens[i].lexeme \notin {<<"t", "h", "i", "s">>,
                                                 <<"t", "r", "u", "e">>}
               THEN KeywordType[Tokens[i].lexeme]
               ELSE "Identifier"
    /\ Tokens[13] = Token_new("Identifier", 1, <<"t", "h", "i", "s">>)
    /\ Tokens[14] = Token_new("Identifier", 1, <<"t", "r", "u", "e">>)

\* An error was reported to stderr since the running compile began.
ErrorReported(err) == Len(err) > parser.notes[1].stderr

\* C17: compile returns a Function if and only if no error was reported
\* during compilation; when one was, interpret returns CompileError having
\* appended nothing to functions, pushed no frame, executed no instruction
\* and left the stack and globals unchanged.  Nothing but the Parser's own
\* state changes while compile runs, and at its return the function and its
\* frame are pushed exactly when no error was reported.
C17_CompileError ==
    [][/\ (pc' = "compile")
              => UNCHANGED <<frames, stack, globals, functions, stdout>>
       /\ (pc = "compile" /\ pc' # "compile")
              => IF ErrorReported(stderr')
                 THEN /\ result' = "CompileError"
                      /\ pc' = "idle"
                      /\ UNCHANGED <<frames, stack, globals, functions, stdout>>
                 ELSE /\ pc' = "run"
                      /\ Len(functions') = Len(functions) + 1
                      /\ frames' = Append(frames, CallFrame_new(Len(functions), 0))
                      /\ UNCHANGED <<stack, globals, stdout>>]_vars

\* interpret of `print (1 * 2 = 3 + 4);` returned CompileError on a VM that
\* an earlier call had left with a function, a frame and a value on the
\* stack: all three are as that call left them.
C17_NothingPushed ==
    /\ calls = <<Src_block_error, Src_bad_assign>>
    /\ result = "CompileError"
    /\ pc = "idle"
    /\ Len(functions) = 1
    /\ Len(frames) = 1
    /\ stack = <<Num(1, 1)>>

\* C18: with debug tracing disabled, every stdout record written during
\* run() comes from executing a Print instruction, and the stdout records
\* are the values popped by Print in execution order: a step writes to
\* stdout only if it is a Print, and a Print appends the value it pops.
C18_StdoutOnlyFromPrint ==
    [][/\ stdout' # stdout => Running("Print")
       /\ (Running("Print") /\ stack # <<>>)
              => /\ stdout' = Append(stdout, [op |-> "Print", value |-> peek(0)])
                 /\ stack' = popped(1)]_vars

\* `print 1.2;` has written two records to stdout: the constant 1.2, by the
\* Constant instruction that loaded it, and then 1.2 by Print.
C18_ConstantWroteToStdout ==
    /\ calls = <<Src_print_number>>
    /\ stdout = <<[op |-> "Constant", value |-> Num(6, 5)],
                  [op |-> "Print", value |-> Num(6, 5)]>>

\* The two values on top of the stack are StringObj.
TwoStrings ==
    /\ Len(stack) >= 2
    /\ peek(0).type = "StringObj"
    /\ peek(1).type = "StringObj"

\* C19: Add on two StringObj operands pops both and pushes one StringObj
\* whose interned bytes are the bytes of the left operand (second from top)
\* followed by those of the right operand (top); `"foo" + "bar"` yields
\* foobar, and Equal reports two StringObj as equal exactly when their bytes
\* are equal, so two concatenations producing the same bytes are equal.
C19_Concatenation ==
    [][/\ (Running("Add") /\ TwoStrings)
              => /\ Len(stack') = Len(stack) - 1
                 /\ SubSeq(stack', 1, Len(stack) - 2) = popped(2)
                 /\ stack'[Len(stack')].type = "StringObj"
                 /\ lookup(interner', stack'[Len(stack')].idx)
                        = lookup(interner, peek(1).idx)
                          \o lookup(interner, peek(0).idx)
       /\ (Running("Equal") /\ TwoStrings)
              => stack' = Append(popped(2),
                                 Value_Bool(lookup(interner, peek(1).idx)
                                            = lookup(interner, peek(0).idx)))
       /\ (calls = <<Src_concat>> /\ Running("Print"))
              => /\ stack = <<Value_StringObj(2)>>
                 /\ lookup(interner, 2) = <<"f", "o", "o", "b", "a", "r">>
       /\ (calls = <<Src_concat_equal>> /\ Running("Print"))
              => stack = <<Value_Bool(TRUE)>>]_vars

\* `print "foo" + "bar";` has printed the string with the bytes foobar, and
\* the stack from which Add took foo and bar is empty again.
C19_FoobarPrinted ==
    /\ calls = <<Src_concat>>
    /\ Printed = <<Value_StringObj(2)>>
    /\ interner.vec = <<<<"f", "o", "o">>, <<"b", "a", "r">>,
                        <<"f", "o", "o", "b", "a", "r">>>>
    /\ stack = <<>>

\* C20: in an expression mixing binary operators, an operator of higher
\* precedence binds tighter and operators of equal precedence associate to
\* the left: `1 + 2 * 3` compiles to Constant 1, Constant 2, Constant 3,
\* Multiply, Add, with value 7, and `a - b - c` compiles to a, b, Subtract,
\* c, Subtract (3 for a = 6, b = 2, c = 1).
C20_Precedence ==
    (calls = <<Src_precedence>> /\ functions # <<>>) =>
        LET c == functions[1].chunk
            global(k) == lookup(interner, c.constants[c.code[k].a + 1].idx)
        IN /\ SubSeq(c.code, 1, 5)
                  = <<Op1("Constant", 0), Op1("Constant", 1), Op1("Constant", 2),
                      Op("Multiply"), Op("Add")>>
           /\ SubSeq(c.constants, 1, 3) = <<Num(1, 1), Num(2, 1), Num(3, 1)>>
           /\ [k \in 1..5 |-> c.code[12 + k].op]
                  = <<"GetGlobal", "GetGlobal", "Subtract", "GetGlobal", "Subtract">>
           /\ global(13) = <<"a">>
           /\ global(14) = <<"b">>
           /\ global(16) = <<"c">>
           /\ IsPrefix(Printed, <<Num(7, 1), Num(3, 1)>>)
           /\ AtScriptReturn => Printed = <<Num(7, 1), Num(3, 1)>>

\* `print 1 + 2 * 3; var a = 6; var b = 2; var c = 1; print a - b - c;` has
\* printed 7 and 3 and stands at its Return.
C20_SevenAndThreePrinted ==
    /\ calls = <<Src_precedence>>
    /\ AtScriptReturn
    /\ Printed = <<Num(7, 1), Num(3, 1)>>

\* C21: when Return executes in a frame that is not the last remaining one,
\* the stack afterwards is the values below the popped frame's slot_offset,
\* unchanged, followed by the return value, and the frame below is a caller
\* that resumes at the instruction after its Call.
C21_ReturnToCaller ==
    [][(pc = "run" /\ op.op = "Return" /\ Len(frames) > 1 /\ stack # <<>>) =>
           LET callee == last_frame
               caller == frames[Len(frames) - 1]
               code == functions[caller.f_idx + 1].chunk.code
           IN /\ stack' = Append(SubSeq(stack, 1, callee.slot_offset), peek(0))
              /\ frames' = [SubSeq(frames, 1, Len(frames) - 1)
                               EXCEPT ![Len(frames) - 1].ip = caller.ip + 1]
              /\ code[caller.ip + 1].op = "Call"]_vars

\* After `{ var a = 1; print b; }` failed at its GetGlobal, the Return of
\* `print 1.2;` has popped its own frame and resumed the frame of the failed
\* call at the Print that follows the GetGlobal.
C21_ResumedAfterFailedGetGlobal ==
    /\ calls = <<Src_block_error, Src_print_number>>
    /\ pc = "run"
    /\ Len(frames) = 1
    /\ last_frame.f_idx = 0
    /\ functions[1].chunk.code[last_frame.ip].op = "GetGlobal"
    /\ op.op = "Print"
    /\ stack = <<Num(1, 1)>>

(***************************************************************************)
(* main.rs: the repl                                                       *)
(***************************************************************************)

\* const FRAMES_MAX
FRAMES_MAX == 64

\* The lines a session at the prompt enters: `a = 1;` first, then empty
\* lines, each ended by its newline.
ReplLines ==
    IF calls = <<>> THEN {Src_set_undefined \o <<"\n">>} ELSE {<<"\n">>}

\* One iteration of the loop of repl that read a line: read_line appends it
\* to buffer, which is never cleared, and the whole buffer is interpreted.
\* The buffer is the source of the call before.  The session is followed for
\* FRAMES_MAX + 1 lines.
repl(line) ==
    /\ Len(calls) <= FRAMES_MAX
    /\ interpret((IF calls = <<>> THEN <<>> ELSE calls[Len(calls)]) \o line)

\* The repl on the lines above, with the instructions they reach.
ReplNext ==
    \/ \E line \in ReplLines : repl(line)
    \/ CompileDeclaration
    \/ CompileEnd
    \/ OpConstant
    \/ OpSetGlobal

ReplSpec == Init /\ [][ReplNext]_vars

\* C22: in every reachable state of one VM, over any sequence of interpret
\* calls, the frame stack holds at most FRAMES_MAX frames: no frame is pushed
\* when FRAMES_MAX are present.
C22_FramesMax == Len(frames) <= FRAMES_MAX

\* The 65th line of a session whose first line, `a = 1;`, failed at run
\* time has been read and the buffer compiled, and interpret has pushed its
\* frame onto the 64 frames the calls before left behind, with no
\* "Stack overflow." reported.
C22_SixtyFifthFrame ==
    /\ Len(calls) = FRAMES_MAX + 1
    /\ pc = "run"
    /\ Len(frames) = FRAMES_MAX + 1
    /\ \A i \in 1..Len(stderr) :
           stderr[i].message # <<"Stack overflow.">>

\* The notes of the jumps patched while the function of the current frame
\* was compiled.
Patched == {i \in 1..Len(frame_notes) : frame_notes[i].kind = "patch_jump"}

\* run() is about to execute a Jump, or a JumpIfFalse that finds a falsey
\* value on top of the stack.
TakesJump ==
    /\ pc = "run"
    /\ \/ op.op = "Jump"
       \/ op.op = "JumpIfFalse" /\ stack # <<>> /\ is_falsey(peek(0))

\* C23: when the VM takes a Jump or JumpIfFalse that patch_jump(offset)
\* patched, the next instruction it executes is the one at the index that was
\* the code length at the time of patching; and every jump it takes was
\* patched.
C23_PatchedJumpTarget ==
    [][TakesJump =>
           /\ \E i \in Patched : frame_notes[i].offset = last_frame.ip
           /\ \A i \in Patched :
                  frame_notes[i].offset = last_frame.ip
                      => /\ pc' = "run"
                         /\ Len(frames') = Len(frames)
                         /\ frames'[Len(frames)].f_idx = last_frame.f_idx
                         /\ frames'[Len(frames)].ip = frame_notes[i].code]_vars

\* In `if (1 < 2) print 1; else print 2; if (nil) print 3;` the Jump over the
\* else branch was taken (1 printed, 2 not) and the JumpIfFalse of the second
\* `if` has just been taken: the VM stands at the Pop that was emitted right
\* after it was patched, with nil still on the stack.
C23_BothJumpsTaken ==
    /\ calls = <<Src_if>>
    /\ pc = "run"
    /\ Printed = <<Num(1, 1)>>
    /\ stack = <<Value_Nil>>
    /\ op.op = "Pop"
    /\ \E i \in Patched :
           /\ chunk.code[frame_notes[i].offset + 1].op = "JumpIfFalse"
           /\ frame_notes[i].code = last_frame.ip
           /\ \E j \in Patched :
                  /\ chunk.code[frame_notes[j].offset + 1].op = "Jump"
                  /\ frame_notes[j].offset < frame_notes[i].offset

\* The notes of the loops emitted while the function of the current frame
\* was compiled; the Loop of a note stands at index code - 1.
Loops == {i \in 1..Len(frame_notes) : frame_notes[i].kind = "emit_loop"}

\* C24: executing the Loop emitted by emit_loop(loop_start) makes the next
\* executed instruction the one at index loop_start, for every loop_start
\* >= 0, and the frame's ip does not go below 0 on the way.
C24_LoopTarget ==
    [][(pc = "run" /\ op.op = "Loop") =>
           \A i \in Loops :
               frame_notes[i].code - 1 = last_frame.ip
                   => /\ last_frame.ip - (op.a + 1) >= 0
                      /\ pc' = "run"
                      /\ Len(frames') = Len(frames)
                      /\ frames'[Len(frames)].ip = frame_notes[i].loop_start]_vars

\* `while (nil == nil) nil;` built with overflow checks: the loop starts at
\* index 0, its body ran once, and the Loop at index 7 panicked.
C24_LoopAtStartPanicked ==
    /\ calls = <<Src_loop_first>>
    /\ overflow_checks
    /\ pc = "aborted"
    /\ op = Op1("Loop", 7)
    /\ last_frame.ip = 7
    /\ \E i \in Loops : frame_notes[i].loop_start = 0

(***************************************************************************)
(* compiler.rs: sources with compile errors                                *)
(***************************************************************************)

\* 1 2 print ;
Src_sync_print ==
    <<"1", " ", "2", " ", "p", "r", "i", "n", "t", " ", ";">>

\* 1 2; print ;
Src_sync_semicolon ==
    <<"1", " ", "2", ";", " ", "p", "r", "i", "n", "t", " ", ";">>

\* 1 2 return ;
Src_sync_return ==
    <<"1", " ", "2", " ", "r", "e", "t", "u", "r", "n", " ", ";">>

\* { 1 2 var a = ; } print ;
Src_sync_block ==
    <<"{", " ", "1", " ", "2", " ", "v", "a", "r", " ", "a", " ", "=", " ",
      ";", " ", "}", " ", "p", "r", "i", "n", "t", " ", ";">>

\* { var a = a; }
Src_own_init ==
    <<"{", " ", "v", "a", "r", " ", "a", " ", "=", " ", "a", ";", " ", "}">>

\* { var a = 1; { var a = a; } }
Src_shadow_init ==
    <<"{", " ", "v", "a", "r", " ", "a", " ", "=", " ", "1", ";", " ", "{",
      " ", "v", "a", "r", " ", "a", " ", "=", " ", "a", ";", " ", "}", " ",
      "}">>

\* { var a = 1; var b = a; } print ;
Src_local_read ==
    <<"{", " ", "v", "a", "r", " ", "a", " ", "=", " ", "1", ";", " ", "v",
      "a", "r", " ", "b", " ", "=", " ", "a", ";", " ", "}", " ", "p", "r",
      "i", "n", "t", " ", ";">>

\* @ print 1;
Src_unexpected ==
    <<"@", " ", "p", "r", "i", "n", "t", " ", "1", ";">>

\* print "ab
Src_unterminated ==
    <<"p", "r", "i", "n", "t", " ", "\"", "a", "b">>

\* { print 1;
Src_unclosed_block ==
    <<"{", " ", "p", "r", "i", "n", "t", " ", "1", ";">>

\* } print 1;
Src_stray_brace ==
    <<"}", " ", "p", "r", "i", "n", "t", " ", "1", ";">>

\* { ) }
Src_block_paren ==
    <<"{", " ", ")", " ", "}">>

\* 1 /
Src_slash_end ==
    <<"1", " ", "/">>

\* 1 // c
Src_comment_end ==
    <<"1", " ", "/", "/", " ", "c">>

\* /
Src_slash ==
    <<"/">>

\* Sources whose compilation reports errors, and one that makes it panic.
ErrorSources ==
    {Src_unexpected,
     Src_unterminated,
     Src_unclosed_block,
     Src_stray_brace,
     Src_block_paren,
     Src_slash_end,
     Src_comment_end,
     Src_slash,
     Src_sync_print,
     Src_sync_semicolon,
     Src_sync_return,
     Src_sync_block,
     Src_own_init,
     Src_shadow_init,
     Src_local_read}

\* One VM interpreting the sources above: none of them compiles, so no
\* instruction runs.
CompilerNext ==
    \/ \E source \in ErrorSources : Interpret(source)
    \/ CompileDeclaration
    \/ CompileEnd

CompilerSpec == Init /\ [][CompilerNext]_vars

\* The keywords that start a statement.
SyncKeywords ==
    {"Class", "Fun", "Var", "For", "If", "While", "Print", "Return"}

\* The tokens skipped by synchronize so far in the running compile: the
\* notes of the iterations of its loop that went on to advance.
Skips ==
    IF pc = "compile"
    THEN {i \in 1..Len(parser.notes) : parser.notes[i].kind = "skip"}
    ELSE {}

\* C25: after a compile error, synchronize stops skipping as soon as the
\* previous token is `;` or the current token is one of class, fun, var, for,
\* if, while, print, return: it never advances past such a point, so in
\* `1 2 print ;` the statement `print ;` is compiled and its own error
\* ("Expect expression.") is reported.
C25_Synchronize ==
    pc = "compile" =>
        /\ \A i \in Skips :
               /\ parser.notes[i].previous.token_type # "Semicolon"
               /\ parser.notes[i].current.token_type \notin SyncKeywords
        /\ (calls[Len(calls)] = Src_sync_print /\ check(parser, "Eof")) =>
               \E i \in (parser.notes[1].stderr + 1)..Len(parser.stderr) :
                   parser.stderr[i].message = <<"Expect expression.">>

\* `1 2 print ;` has been compiled to its end: synchronize skipped the
\* `print`, no print statement was compiled, and the only error reported is
\* the one at `2`.
C25_PrintSkipped ==
    /\ calls = <<Src_sync_print>>
    /\ pc = "compile"
    /\ check(parser, "Eof")
    /\ \E i \in Skips : parser.notes[i].current.token_type = "Print"
    /\ \A i \in 1..Len(parser.notes) :
           parser.notes[i].kind = "statement" => parser.notes[i].form # "print"
    /\ parser.stderr = <<[line |-> 1, at |-> <<"2">>,
                          message |-> <<"Expect ';' after expression.">>]>>

\* "Cannot read local variable in its own initializer." is among the
\* diagnostics of the current or last compile (err is its stderr).
OwnInitializerReported(err) ==
    \E i \in 1..Len(err) :
        err[i].message = <<"Cannot read local variable in its own initializer.">>

\* In the notes ns: the indexes of the locals added, and for the local added
\* at i the index of the mark_initialized that follows it.
Added(ns) == {i \in 1..Len(ns) : ns[i].kind = "add_local"}

MarkedAt(ns, i) ==
    CHOOSE j \in (i + 1)..Len(ns) :
        /\ ns[j].kind = "mark_initialized"
        /\ \A k \in (i + 1)..(j - 1) : ns[k].kind # "mark_initialized"

\* C26: in a local scope, reading a local whose depth is still -1, as in
\* `{ var a = a; }` (also when an outer `a` exists), is reported as "Cannot
\* read local variable in its own initializer." and interpret returns
\* CompileError with no Function added; and a local's depth is -1 from
\* add_local until the mark_initialized that follows the tokens of its
\* initializer, which sets it to the scope depth.
C26_OwnInitializer ==
    /\ (calls # <<>> /\ calls[Len(calls)] \in {Src_own_init, Src_shadow_init}) =>
           /\ pc \in {"compile", "idle"}
           /\ (pc = "compile" /\ check(parser, "Eof")) =>
                  /\ parser.had_error
                  /\ OwnInitializerReported(
                         SubSeq(parser.stderr, parser.notes[1].stderr + 1,
                                Len(parser.stderr)))
           /\ pc = "idle" =>
                  /\ result = "CompileError"
                  /\ OwnInitializerReported(stderr)
                  /\ functions = <<>>
    /\ (calls # <<>> /\ calls[Len(calls)] = Src_local_read /\ pc = "compile") =>
           ~OwnInitializerReported(
                SubSeq(parser.stderr, parser.notes[1].stderr + 1,
                       Len(parser.stderr)))
    /\ pc = "compile" =>
           \A i \in Added(parser.notes) :
               /\ \E j \in (i + 1)..Len(parser.notes) :
                      parser.notes[j].kind = "mark_initialized"
               /\ LET j == MarkedAt(parser.notes, i) IN
                  /\ \A k \in i..(j - 1) : parser.notes[k].last_depth = -1
                  /\ \E k \in (i + 1)..(j - 1) : parser.notes[k].kind = "token"
                  /\ parser.notes[j].last_depth = parser.notes[i].depth
                  /\ parser.notes[j].locals = parser.notes[i].locals

\* interpret of `{ var a = 1; { var a = a; } }` has returned CompileError
\* after reporting the read of the inner `a` in its own initializer.
C26_InnerReadReported ==
    /\ calls = <<Src_shadow_init>>
    /\ pc = "idle"
    /\ result = "CompileError"
    /\ stderr = <<[line |-> 1, at |-> <<"a">>,
                   message |-> <<"Cannot read local variable in its own initializer.">>]>>

\* C27: after an interpret call returned RuntimeError, a later interpret call
\* on the same VM runs with exactly one frame, that of the script it just
\* compiled, on a stack that holds nothing of the failed run; no other frame
\* is ever resumed.
C27_FreshRunAfterError ==
    pc = "run" =>
        /\ Len(frames) = 1
        /\ InOwnFrame
        /\ run_height = 0

\* `a = 1;` failed at its SetGlobal; the Return of `print 1.2;` then took the
\* 1 the failed run left on the stack for its return value and, instead of
\* halting with Ok, resumed the frame of `a = 1;` at its Pop.
C27_StaleFrameResumed ==
    /\ calls = <<Src_set_undefined, Src_print_number>>
    /\ pc = "run"
    /\ result = "None"
    /\ Printed = <<Num(6, 5)>>
    /\ frames = <<[f_idx |-> 0, ip |-> 2, slot_offset |-> 0]>>
    /\ op.op = "Pop"
    /\ stack = <<Num(1, 1)>>

(***************************************************************************)
(* vm.rs: sources whose operands fail the type check of an instruction     *)
(***************************************************************************)

\* print 1 + "a";
Src_add_mixed ==
    <<"p", "r", "i", "n", "t", " ", "1", " ", "+", " ", "\"", "a", "\"",
      ";">>

\* print 2 + (nil + nil);
Src_add_nil ==
    <<"p", "r", "i", "n", "t", " ", "2", " ", "+", " ", "(", "n", "i", "l",
      " ", "+", " ", "n", "i", "l", ")", ";">>

\* var g = 1; print 3 * (g - "a");
Src_subtract ==
    <<"v", "a", "r", " ", "g", " ", "=", " ", "1", ";", " ", "p", "r", "i",
      "n", "t", " ", "3", " ", "*", " ", "(", "g", " ", "-", " ", "\"",
      "a", "\"", ")", ";">>

\* print nil * 2;
Src_multiply ==
    <<"p", "r", "i", "n", "t", " ", "n", "i", "l", " ", "*", " ", "2", ";">>

\* print 1 / false;
Src_divide ==
    <<"p", "r", "i", "n", "t", " ", "1", " ", "/", " ", "f", "a", "l", "s",
      "e", ";">>

\* print "a" > "b";
Src_greater ==
    <<"p", "r", "i", "n", "t", " ", "\"", "a", "\"", " ", ">", " ", "\"",
      "b", "\"", ";">>

\* print 1 < nil;
Src_less ==
    <<"p", "r", "i", "n", "t", " ", "1", " ", "<", " ", "n", "i", "l", ";">>

\* print 4 - -"a";
Src_negate ==
    <<"p", "r", "i", "n", "t", " ", "4", " ", "-", " ", "-", "\"", "a",
      "\"", ";">>

\* Sources that fail at run time, each at another instruction.
TypeErrorSources ==
    {Src_add_mixed,
     Src_add_nil,
     Src_subtract,
     Src_multiply,
     Src_divide,
     Src_greater,
     Src_less,
     Src_negate}

\* One VM interpreting the sources above, with the instructions they reach.
TypeErrorNext ==
    \/ \E source \in TypeErrorSources : Interpret(source)
    \/ CompileDeclaration
    \/ CompileEnd
    \/ OpConstant
    \/ OpNil
    \/ OpFalse
    \/ OpDefineGlobal
    \/ OpGetGlobal
    \/ OpGreater
    \/ OpLess
    \/ OpAdd
    \/ OpSubtract
    \/ OpMultiply
    \/ OpDivide
    \/ OpNegate

TypeErrorSpec == Init /\ [][TypeErrorNext]_vars

\* run() is about to execute an arithmetic or comparison instruction whose
\* operands are on the stack and fail its type check.
TypeCheckFails ==
    /\ pc = "run"
    /\ \/ /\ op.op = "Negate"
          /\ Len(stack) >= 1
          /\ peek(0).type # "Number"
       \/ /\ op.op \in {"Subtract", "Multiply", "Divide", "Greater", "Less"}
          /\ Len(stack) >= 2
          /\ ~(peek(0).type = "Number" /\ peek(1).type = "Number")
       \/ /\ op.op = "Add"
          /\ Len(stack) >= 2
          /\ ~(peek(0).type = "Number" /\ peek(1).type = "Number")
          /\ ~(peek(0).type = "StringObj" /\ peek(1).type = "StringObj")

\* C28: when Add, Subtract, Multiply, Divide, Greater, Less or Negate fails
\* its operand type check, run() returns RuntimeError and the value stack
\* holds the same values in the same order as before the instruction; the
\* globals and the frame stack are unchanged too.
C28_FailedTypeCheck ==
    [][TypeCheckFails =>
           /\ pc' = "idle"
           /\ result' = "RuntimeError"
           /\ stack' = stack
           /\ globals' = globals
           /\ frames' = frames]_vars

\* `var g = 1; print 3 * (g - "a");` has failed at its Subtract after a call
\* that failed at another instruction: RuntimeError is returned, the 3, the 1
\* read from g and "a" are still on the stack above what the first call left
\* there, and g is still defined.
C28_SubtractFailed ==
    /\ Len(calls) = 2
    /\ calls[1] # Src_subtract
    /\ calls[2] = Src_subtract
    /\ pc = "idle"
    /\ result = "RuntimeError"
    /\ Len(frames) = 2
    /\ op.op = "Subtract"
    /\ Len(stack) >= 5
    /\ peek(2) = Num(3, 1)
    /\ peek(1) = Num(1, 1)
    /\ peek(0).type = "StringObj"
    /\ \E h \in DOMAIN globals : globals[h] = Num(1, 1)

(***************************************************************************)
(* C29: the progress of the scanner and of the compiler's loops            *)
(***************************************************************************)

\* Every scan_token call noted in ns moved the cursor forward, or returned
\* Eof with the cursor at the end of src.
ScanProgress(ns, src) ==
    \A i \in 1..Len(ns) :
        ns[i].kind = "token" =>
            \/ ns[i].to > ns[i].from
            \/ /\ ns[i].token.token_type = "Eof"
               /\ ns[i].from = Len(src)
               /\ ns[i].to = Len(src)

\* Every iteration of block's loop and of synchronize's loop noted in ns
\* went on to scan a token.
LoopProgress(ns) ==
    \A i \in 1..Len(ns) :
        ns[i].kind \in {"block_iteration", "skip"} =>
            /\ i < Len(ns)
            /\ ns[i + 1].kind = "token"

TokenCount(p) == Len(SelectSeq(p.notes, LAMBDA n : n.kind = "token"))

\* What is left to compile: nothing once the current token is Eof, else the
\* bytes after the cursor and the current token.
Remaining(p) ==
    IF p.current.token_type = "Eof" THEN 0
    ELSE 1 + Len(p.scanner.src) - p.scanner.current

\* C29: compile terminates for every finite source: the scan_token calls of
\* interpret return, every one of them strictly advances the scanner's
\* cursor or returns Eof at the end of input, every iteration of block's
\* loop and of synchronize consumes at least one token, also in panic mode,
\* and so does the iteration of the declaration loop that is about to run,
\* which leaves less to compile than there was.
C29_CompileTerminates ==
    /\ pc \in {"idle", "compile"}
    /\ pc = "compile" =>
           /\ ScanProgress(parser.notes, parser.scanner.src)
           /\ LoopProgress(parser.notes)
           /\ Remaining(parser) >= 0
           /\ ~check(parser, "Eof") =>
                  /\ TokenCount(declaration(parser)) > TokenCount(parser)
                  /\ Remaining(declaration(parser)) < Remaining(parser)

\* interpret was called on the source `/` and the process panicked in the
\* first scan_token.
C29_SlashPanicked ==
    /\ calls # <<>>
    /\ calls[Len(calls)] = Src_slash
    /\ pc = "aborted"
    /\ result = "Panic"

(***************************************************************************)
(* C30: the instruction pointer stays inside the chunk                     *)
(***************************************************************************)

\* The index the VM goes to when it takes the jump or loop at index i of
\* code: ip += offset or ip -= offset + 1, then ip += 1.
Target(code, i) ==
    IF code[i + 1].op = "Loop" THEN i - code[i + 1].a ELSE i + code[i + 1].a + 1

\* The jumps and loops of chunk c, whose compilation left the notes ns, go
\* to indices of c, each jump has the operand patch_jump gave it, and the
\* last instruction of c is Return.
JumpsInside(c, ns) ==
    /\ c.code # <<>>
    /\ c.code[Len(c.code)] = Op("Return")
    /\ \A i \in 0..(Len(c.code) - 1) :
           /\ c.code[i + 1].op \in {"Jump", "JumpIfFalse", "Loop"}
                  => Target(c.code, i) \in 0..(Len(c.code) - 1)
           /\ c.code[i + 1].op \in {"Jump", "JumpIfFalse"}
                  => \E k \in 1..Len(ns) :
                         /\ ns[k].kind = "patch_jump"
                         /\ ns[k].offset = i
                         /\ c.code[i + 1].a = ns[k].code - 1 - i

\* The values the ip of the current frame takes while the instruction at ip
\* executes, up to the closing `ip += 1`.  A negative value stands for a
\* subtraction that underflows: a panic with overflow checks, and without
\* them a wrapped value beyond every chunk.
IpValues ==
    {last_frame.ip} \cup
    (IF op.op = "Jump" THEN {last_frame.ip + op.a}
     ELSE IF op.op = "JumpIfFalse" /\ stack # <<>> /\ is_falsey(peek(0))
     THEN {last_frame.ip + op.a}
     ELSE IF op.op = "Loop" THEN {last_frame.ip - (op.a + 1)}
     ELSE {})

\* C30: while the VM executes a chunk returned by a successful compile, the
\* ip of the current frame always indexes an instruction of that chunk, also
\* on the way through a jump or a loop; in every such chunk each Jump,
\* JumpIfFalse and Loop targets an index inside the chunk, no jump keeps its
\* placeholder operand, and the last instruction is Return.
C30_IpInsideChunk ==
    /\ \A f \in 1..Len(functions) : JumpsInside(functions[f].chunk, history[f])
    /\ pc = "run" =>
           /\ frames # <<>>
           /\ IpValues \subseteq 0..(Len(chunk.code) - 1)

\* In `while (nil == nil) nil;` the VM is about to execute the Loop that
\* goes back to index 0: its target is inside the chunk, and `ip -= offset
\* + 1` takes ip below 0 on the way.
C30_LoopBelowZero ==
    /\ calls = <<Src_loop_first>>
    /\ pc = "run"
    /\ op.op = "Loop"
    /\ JumpsInside(chunk, frame_notes)
    /\ Target(chunk.code, last_frame.ip) = 0
    /\ last_frame.ip - (op.a + 1) = -1

=============================================================================
